---- MODULE Spec2Model ----
(***************************************************************************)
(* Verification model of the opus_trade_bot event pipeline:                *)
(*   - SPSCRingBuffer          (include/opus/core/ring_buffer.hpp)         *)
(*   - OrderBook               (src/market/order_book.cpp)                 *)
(*   - SignalFilter            (include/opus/strategy/signal_filter.hpp)   *)
(*   - risk::RiskManager       (include/opus/risk/risk_manager.hpp)        *)
(*   - OrderManager, PositionTracker, OBITradingEngine handlers            *)
(*                             (src/order/*.cpp, src/main.cpp)             *)
(* Each component has its own specification over the shared variables; a   *)
(* specification leaves the variables of the other components unchanged.   *)
(***************************************************************************)
EXTENDS Integers, Sequences, FiniteSets, TLC

\* ------------------------------------------------------------------------
\* Bounds of the model (not program constants)
\* ------------------------------------------------------------------------

\* log2 of the ring's template parameter Capacity (a power of two >= 2)
CapBits == 2
\* number of try_push calls the producer makes
MaxPush == 6
\* OrderBook::MAX_LEVELS (1000 in order_book.hpp:33), scaled down
MAX_LEVELS == 2
\* raw prices of the levels fed to the book are 1..PriceMax
PriceMax == 3
\* the filter's clock runs from 0 to FilterMaxTime seconds
FilterMaxTime == 8
\* SignalFilterConfig::cooldown_seconds of the modelled filter (default 30)
cooldown_seconds == 3
\* SignalFilterConfig::confirmation_ticks of the modelled filter (default 3)
confirmation_ticks == 2
\* filter() is not called once consecutive_ticks_ has reached MaxStreak
MaxStreak == 4
\* the risk manager's clock runs from 0 to at most RiskMaxTime seconds, in steps of 5
RiskMaxTime == 15
\* on_order_placed is not called with open_positions_ at MaxOpen (risk manager alone)
MaxOpen == 2
\* on_order_placed is not called with daily_trades_ at MaxTrades (risk manager alone)
MaxTrades == 21
\* on_position_closed keeps |daily_pnl_| within PnlMax dollars (risk manager alone)
PnlMax == 100
\* the engine's clock runs from 0 to at most EngineMaxTime seconds, in steps of 30
EngineMaxTime == 60
\* the engine handles at most MaxUpdates depth updates of its own symbol
MaxUpdates == 1
\* orders each thread places through the OrderManager
MaxCalls == 2
\* positions in one answer of get_positions
MaxPositions == 2
\* events the network thread publishes while the process is observed
MaxEvents == 3
\* largest quantity of a level handed to the imbalance generator
QtyMax == 5
\* largest depth_levels and smoothing_period configured
MaxDepthLevels == 2
MaxSmoothing == 2
\* update calls made on one imbalance generator
MaxSamples == 2
\* depth updates handled while the imbalance generator is not ready
MaxRebuilds == 2
\* largest update id a caller stamps the book with
MaxUpdateId == 2
\* try_push calls the producers of the MPSC ring make between them
MaxMpscPush == 3

VARIABLES
    \* ---- SPSCRingBuffer and its two threads ----
    head,        \* std::atomic<size_t> head_
    tail,        \* std::atomic<size_t> tail_
    buffer,      \* std::array<T, Capacity> buffer_ (index 0..Capacity-1)
    p_pc,        \* producer's position inside try_push
    p_head,      \* try_push local current_head
    p_item,      \* try_push argument item
    p_ret,       \* value returned by the last completed try_push
    c_pc,        \* consumer's position inside try_pop
    c_tail,      \* try_pop local current_tail
    c_item,      \* try_pop local item
    nextId,      \* id of the next item the producer will offer
    accepted,    \* items of the try_push calls that returned true, in order
    popped,      \* items returned by successful try_pop calls, in order
    \* ---- clock ----
    now,         \* std::chrono::steady_clock::now(), in seconds
    \* ---- OrderBook ----
    bids,        \* bids_[0 .. bid_count_-1], as a sequence of PriceLevel
    asks,        \* asks_[0 .. ask_count_-1], as a sequence of PriceLevel
    last_update_time,  \* last_update_time_
    last_update_id,    \* last_update_id_
    book_op,     \* name of the last OrderBook method called
    feed_bids,   \* bid prices live in the book the update stream describes
    feed_asks,   \* ask prices live in the book the update stream describes
    \* ---- SignalFilter ----
    filt,        \* last_direction_, consecutive_ticks_, last_buy_time_, last_sell_time_
    f_signal,    \* FilteredSignal::type returned by the last filter() call
    emit_time,   \* per direction: time of the last qualified signal, -1 if none
    emit_gap,    \* per direction: smallest time between two qualified signals, -1 if none
    streak,      \* of the filter driven on its own: the direction of the last tick,
                 \* the consecutive ticks of that direction that passed the spread
                 \* and threshold gates since the last reset, the count the last
                 \* tick reached and the ticks it required
    \* ---- risk::RiskManager ----
    cfg_in,      \* the RiskConfig passed to the constructor
    risk_cfg,    \* config_ (the effective configuration)
    risk,        \* open_positions_, daily_trades_, daily_pnl_, last_order_time_
    risk_op,     \* name of the last RiskManager method called
    risk_result, \* TradeResult::decision of the last can_trade call
    pnl_sum,     \* sum of the pnl passed to on_position_closed since the last reset
    \* ---- OBITradingEngine, OrderManager, PositionTracker, exchange ----
    trading_enabled,            \* config_.trading_enabled
    trading_disabled_notified,  \* trading_disabled_notified_
    stats,            \* stats_ (the counters)
    orders,           \* every request handed to client_.place_order, with its answer
    order_counter,    \* OrderManager::order_counter_
    pending_orders,   \* OrderManager::pending_orders_ (order ids: positions in orders)
    tracker_open,     \* PositionTracker::open_positions_ holds the symbol
    ex_pos,           \* the exchange's position in the symbol (signed)
    sync_parity,      \* parity of the number of POSITION_SYNC timer events handled
    realized,         \* PositionTracker::last_realized_pnl_, and the sum of the
                      \* realized PnL of the closures detected so far
    event,            \* the last depth update handled: its symbol, the levels the book
                      \* was rebuilt from, what can_trade answered in
                      \* it and the place_bracket_order call it made
    \* ---- OrderManager called from several threads ----
    om_pc,            \* per thread: where it is in place_bracket_order
    om_calls,         \* per thread: the calls it has made
    issued,           \* the client order ids generated, in order, with their thread
    \* ---- PositionTracker on its own ----
    open_positions_,  \* PositionTracker::open_positions_ (symbol, signed quantity)
    fetched,          \* what get_positions returned in the last sync_with_exchange
    sync_returned,    \* what the last sync_with_exchange returned
    tracker_op,       \* name of the last PositionTracker method called
    \* ---- MessageBus and the engine's shutdown ----
    bus_pc,           \* where the network thread is in publish_depth
    attempts,         \* publish_depth calls made by the network thread
    events_published, \* MessageBus::events_published
    events_dropped,   \* MessageBus::events_dropped
    loop_running,     \* the event loop has not been stopped
    client_running,   \* the exchange client has not been stopped
    \* ---- the process: main thread, signals, event loop ----
    g_running,        \* g_running
    main_pc,          \* main(): "run" in engine.run(), "stop" at engine.stop(), "exit"
    exit_code,        \* what main returned, -1 while it has not
    stats_printed,    \* times stop() has printed the final statistics
    kinds,            \* the kind of each event pushed into the ring, by item
    dispatched,       \* the handler calls of the event loop, in order
    loop_parity,      \* parity of the idle passes of the event loop
    signalled,        \* the signals delivered so far
    \* ---- strategy::ImbalanceSignalGenerator ----
    obi_config,       \* config_ (depth_levels, smoothing_period)
    obi,              \* smoothed_imbalance_, raw_imbalance_, sample_count_
    \* ---- SPSCRingBuffer::push ----
    pushing,          \* the item of the push call in progress, 0 when there is none
    waited,           \* the push call in progress has found the ring full
    returned,         \* the push calls that have returned: item, whether it waited
    obi_in,           \* of the slices passed to the last update call: whether
                      \* one was empty, their volumes over the levels counted,
                      \* what calculate_weighted returns for them
    \* ---- MPSCRingBuffer ----
    mpsc              \* head_, tail_, buffer_, each producer's position in
                      \* try_push with its current_head and item, the
                      \* consumer's position in try_pop with its current_tail
                      \* and item, the next item to push, the items whose
                      \* try_push returned true and the items popped

ringVars == <<head, tail, buffer, p_pc, p_head, p_item, p_ret,
              c_pc, c_tail, c_item, nextId, accepted, popped>>

bookVars == <<bids, asks, last_update_time, last_update_id, book_op, feed_bids,
              feed_asks>>

filterVars == <<filt, f_signal, emit_time, emit_gap, streak>>

riskVars == <<cfg_in, risk_cfg, risk, risk_op, risk_result, pnl_sum>>

engineVars == <<trading_enabled, trading_disabled_notified, stats, orders,
                order_counter, pending_orders, tracker_open, ex_pos, sync_parity,
                realized, event>>

idVars == <<om_pc, om_calls, issued>>

trackerVars == <<open_positions_, fetched, sync_returned, tracker_op>>

busVars == <<bus_pc, attempts, events_published, events_dropped>>

stopVars == <<loop_running, client_running>>

procVars == <<g_running, main_pc, exit_code, stats_printed, kinds, dispatched,
              loop_parity, signalled>>

\* the components added after the engine's
obiVars == <<obi_config, obi, obi_in>>

pushVars == <<pushing, waited, returned>>

mpscVars == <<mpsc>>

laterVars == <<procVars, obiVars, pushVars, mpscVars>>

vars == <<ringVars, now, bookVars, filterVars, riskVars, engineVars, idVars,
          trackerVars, busVars, stopVars, laterVars>>

\* ========================================================================
\* SPSCRingBuffer
\* ========================================================================

RECURSIVE Pow2(_)
Pow2(n) == IF n = 0 THEN 1 ELSE 2 * Pow2(n - 1)

Capacity == Pow2(CapBits)
MASK == Capacity - 1

\* x & MASK for MASK = 2^k - 1 and x >= 0
AndMask(x) == x % (MASK + 1)

\* full(): ((head + 1) & MASK) == tail
full == AndMask(head + 1) = tail
\* empty(): head == tail
empty == head = tail
\* size(): (head - tail) & MASK, size_t arithmetic wraps modulo 2^64
size == AndMask(head - tail + Capacity)
\* capacity(): Capacity - 1
capacity == Capacity - 1

RingInit ==
    /\ head = 0
    /\ tail = 0
    /\ buffer = [i \in 0..(Capacity - 1) |-> 0]
    /\ p_pc = "idle" /\ p_head = 0 /\ p_item = 0 /\ p_ret = "none"
    /\ c_pc = "idle" /\ c_tail = 0 /\ c_item = 0
    /\ nextId = 1
    /\ accepted = <<>>
    /\ popped = <<>>

\* try_push line 83: current_head = head_.load(relaxed)
P_LoadHead ==
    /\ p_pc = "idle"
    /\ nextId <= MaxPush
    /\ p_item' = nextId
    /\ nextId' = nextId + 1
    /\ p_head' = head
    /\ p_pc' = "check"
    /\ UNCHANGED <<head, tail, buffer, p_ret, c_pc, c_tail, c_item, accepted, popped>>

\* a push that does not test for a full ring
P_LoadTail_NoFullTest ==
    /\ p_pc = "check"
    /\ p_pc' = "write"
    /\ UNCHANGED <<head, tail, buffer, p_head, p_item, p_ret, c_pc, c_tail, c_item,
                   nextId, accepted, popped>>

\* a full test that compares the wrong index
P_LoadTail_WrongIndex ==
    /\ p_pc = "check"
    /\ IF AndMask(p_head + 2) = tail
         THEN p_pc' = "idle" /\ p_ret' = "false"
         ELSE p_pc' = "write" /\ UNCHANGED p_ret
    /\ UNCHANGED <<head, tail, buffer, p_head, p_item, c_pc, c_tail, c_item,
                   nextId, accepted, popped>>

\* try_push lines 84-89: next_head == tail_.load(acquire) -> return false
P_LoadTail ==
    /\ p_pc = "check"
    /\ IF AndMask(p_head + 1) = tail
         THEN p_pc' = "idle" /\ p_ret' = "false"
         ELSE p_pc' = "write" /\ UNCHANGED p_ret
    /\ UNCHANGED <<head, tail, buffer, p_head, p_item, c_pc, c_tail, c_item,
                   nextId, accepted, popped>>

\* try_push line 91: buffer_[current_head] = item
P_WriteSlot ==
    /\ p_pc = "write"
    /\ buffer' = [buffer EXCEPT ![p_head] = p_item]
    /\ p_pc' = "publish"
    /\ UNCHANGED <<head, tail, p_head, p_item, p_ret, c_pc, c_tail, c_item,
                   nextId, accepted, popped>>

\* try_push lines 94-95: head_.store(next_head, release); return true
P_StoreHead ==
    /\ p_pc = "publish"
    /\ head' = AndMask(p_head + 1)
    /\ p_ret' = "true"
    /\ accepted' = Append(accepted, p_item)
    /\ p_pc' = "idle"
    /\ UNCHANGED <<tail, buffer, p_head, p_item, c_pc, c_tail, c_item, nextId, popped>>

\* try_pop line 109: current_tail = tail_.load(relaxed)
C_LoadTail ==
    /\ c_pc = "idle"
    /\ c_tail' = tail
    /\ c_pc' = "check"
    /\ UNCHANGED <<head, tail, buffer, p_pc, p_head, p_item, p_ret, c_item,
                   nextId, accepted, popped>>

\* try_pop lines 112-114: current_tail == head_.load(acquire) -> nullopt
C_LoadHead ==
    /\ c_pc = "check"
    /\ c_pc' = IF c_tail = head THEN "idle" ELSE "read"
    /\ UNCHANGED <<head, tail, buffer, p_pc, p_head, p_item, p_ret, c_tail, c_item,
                   nextId, accepted, popped>>

\* a read of the slot after the one at tail
C_ReadSlot_NextSlot ==
    /\ c_pc = "read"
    /\ c_item' = buffer[AndMask(c_tail + 1)]
    /\ c_pc' = "advance"
    /\ UNCHANGED <<head, tail, buffer, p_pc, p_head, p_item, p_ret, c_tail,
                   nextId, accepted, popped>>

\* try_pop line 116: item = buffer_[current_tail]
C_ReadSlot ==
    /\ c_pc = "read"
    /\ c_item' = buffer[c_tail]
    /\ c_pc' = "advance"
    /\ UNCHANGED <<head, tail, buffer, p_pc, p_head, p_item, p_ret, c_tail,
                   nextId, accepted, popped>>

\* try_pop lines 119-120: tail_.store((current_tail + 1) & MASK, release); return item
C_StoreTail ==
    /\ c_pc = "advance"
    /\ tail' = AndMask(c_tail + 1)
    /\ popped' = Append(popped, c_item)
    /\ c_pc' = "idle"
    /\ UNCHANGED <<head, buffer, p_pc, p_head, p_item, p_ret, c_tail, c_item,
                   nextId, accepted>>

RingNext ==
    \/ P_LoadHead \/ P_LoadTail \/ P_WriteSlot \/ P_StoreHead
    \/ C_LoadTail \/ C_LoadHead \/ C_ReadSlot \/ C_StoreTail


\* ------------------------------------------------------------------------
\* MPSCRingBuffer: two producers and one consumer, one step per load, CAS,
\* slot access and store
\* ------------------------------------------------------------------------

Producers == {1, 2}

MpscInit ==
    mpsc = [head_ |-> 0, tail_ |-> 0, buffer_ |-> [i \in 0..(Capacity - 1) |-> 0],
            pc |-> [p \in Producers |-> "idle"],
            current_head |-> [p \in Producers |-> 0],
            item |-> [p \in Producers |-> 0],
            c_pc |-> "idle", current_tail |-> 0, c_item |-> 0,
            nextId |-> 1, pushed |-> {}, popped |-> <<>>]

\* try_push line 199: current_head = head_.load(relaxed), for a new item
M_LoadHead(p) ==
    /\ mpsc.pc[p] = "idle"
    /\ mpsc.nextId <= MaxMpscPush
    /\ mpsc' = [mpsc EXCEPT !.pc[p] = "check", !.current_head[p] = mpsc.head_,
                            !.item[p] = mpsc.nextId, !.nextId = @ + 1]

\* try_push lines 202-207: next_head == tail_.load(acquire) -> return false
M_LoadTail(p) ==
    /\ mpsc.pc[p] = "check"
    /\ mpsc' = IF AndMask(mpsc.current_head[p] + 1) = mpsc.tail_
                 THEN [mpsc EXCEPT !.pc[p] = "idle"]
                 ELSE [mpsc EXCEPT !.pc[p] = "cas"]

\* try_push lines 210-216: head_.compare_exchange_weak(current_head,
\* next_head); on failure, which a weak exchange may also report when the
\* values are equal, current_head is reloaded and the loop runs again
M_CompareExchange(p) ==
    /\ mpsc.pc[p] = "cas"
    /\ \/ /\ mpsc.head_ = mpsc.current_head[p]
          /\ mpsc' = [mpsc EXCEPT !.head_ = AndMask(mpsc.current_head[p] + 1),
                                  !.pc[p] = "write"]
       \/ mpsc' = [mpsc EXCEPT !.current_head[p] = mpsc.head_, !.pc[p] = "check"]

\* try_push lines 213-214: buffer_[current_head] = item; return true
M_WriteSlot(p) ==
    /\ mpsc.pc[p] = "write"
    /\ mpsc' = [mpsc EXCEPT !.buffer_[mpsc.current_head[p]] = mpsc.item[p],
                            !.pushed = @ \cup {mpsc.item[p]},
                            !.pc[p] = "idle"]

\* try_pop line 222: current_tail = tail_.load(relaxed)
MC_LoadTail ==
    /\ mpsc.c_pc = "idle"
    /\ mpsc' = [mpsc EXCEPT !.current_tail = mpsc.tail_, !.c_pc = "check"]

\* try_pop lines 224-226: current_tail == head_.load(acquire) -> nullopt
MC_LoadHead ==
    /\ mpsc.c_pc = "check"
    /\ mpsc' = [mpsc EXCEPT !.c_pc = IF mpsc.current_tail = mpsc.head_
                                       THEN "idle" ELSE "read"]

\* try_pop line 228: item = buffer_[current_tail]
MC_ReadSlot ==
    /\ mpsc.c_pc = "read"
    /\ mpsc' = [mpsc EXCEPT !.c_item = mpsc.buffer_[mpsc.current_tail],
                            !.c_pc = "advance"]

\* try_pop lines 229-230: tail_.store((current_tail + 1) & MASK); return item
MC_StoreTail ==
    /\ mpsc.c_pc = "advance"
    /\ mpsc' = [mpsc EXCEPT !.tail_ = AndMask(mpsc.current_tail + 1),
                            !.popped = Append(@, mpsc.c_item),
                            !.c_pc = "idle"]

MpscNext ==
    \/ \E p \in Producers :
          M_LoadHead(p) \/ M_LoadTail(p) \/ M_CompareExchange(p) \/ M_WriteSlot(p)
    \/ MC_LoadTail \/ MC_LoadHead \/ MC_ReadSlot \/ MC_StoreTail


\* ------------------------------------------------------------------------
\* the blocking push: while (!try_push(item)) _mm_pause();
\* ------------------------------------------------------------------------

PushInit ==
    /\ pushing = 0
    /\ waited = FALSE
    /\ returned = <<>>

\* a push that gives up after its first try_push
PushDone_FirstTry(ret) == TRUE

\* the loop of push ends when try_push has returned true
PushDone(ret) == ret = "true"

\* push(item) is called; its first try_push loads head (line 83)
Push_Call ==
    /\ p_pc = "idle"
    /\ pushing = 0
    /\ nextId <= MaxPush
    /\ pushing' = nextId
    /\ waited' = FALSE
    /\ nextId' = nextId + 1
    /\ p_item' = nextId
    /\ p_head' = head
    /\ p_pc' = "check"
    /\ UNCHANGED <<head, tail, buffer, p_ret, c_pc, c_tail, c_item, accepted, popped,
                   returned>>

\* the steps inside try_push
Push_TryStep ==
    /\ pushing # 0
    /\ P_LoadTail \/ P_WriteSlot \/ P_StoreHead
    /\ UNCHANGED pushVars

\* try_push has returned: push returns on true, else pauses and calls
\* try_push(item) again
Push_Loop ==
    /\ p_pc = "idle"
    /\ pushing # 0
    /\ IF PushDone(p_ret)
         THEN /\ returned' = Append(returned, [item |-> pushing, waited |-> waited])
              /\ pushing' = 0
              /\ UNCHANGED <<waited, p_item, p_head, p_pc>>
         ELSE /\ waited' = TRUE
              /\ p_item' = pushing
              /\ p_head' = head
              /\ p_pc' = "check"
              /\ UNCHANGED <<pushing, returned>>
    /\ UNCHANGED <<head, tail, buffer, p_ret, c_pc, c_tail, c_item, nextId, accepted,
                   popped>>

\* the producer thread, which only calls push
PushProducer ==
    /\ Push_Call \/ Push_TryStep \/ Push_Loop
    /\ UNCHANGED <<now, bookVars, filterVars, riskVars, engineVars, idVars,
                   trackerVars, busVars, stopVars, procVars, obiVars, mpscVars>>

\* the consumer thread, which calls try_pop again and again
PushConsumer ==
    /\ C_LoadTail \/ C_LoadHead \/ C_ReadSlot \/ C_StoreTail
    /\ UNCHANGED <<now, bookVars, filterVars, riskVars, engineVars, idVars,
                   trackerVars, busVars, stopVars, laterVars>>

PushNext == PushProducer \/ PushConsumer

\* ========================================================================
\* MessageBus over the ring, and OBITradingEngine::stop
\* ========================================================================

BusInit ==
    /\ bus_pc = "idle"
    /\ attempts = 0
    /\ events_published = 0
    /\ events_dropped = 0
    /\ loop_running = TRUE
    /\ client_running = TRUE

\* depth_cb on the network thread calls publish_depth, which starts its
\* try_push
PublishDepth ==
    /\ client_running
    /\ bus_pc = "idle"
    /\ P_LoadHead
    /\ bus_pc' = "try_push"
    /\ attempts' = attempts + 1
    /\ UNCHANGED <<events_published, events_dropped>>

\* a publish_depth that counts every attempt as published
CountAttempt_AlwaysPublished ==
    /\ bus_pc = "try_push" /\ p_pc = "idle"
    /\ events_published' = events_published + 1
    /\ bus_pc' = "idle"
    /\ UNCHANGED <<attempts, events_dropped>>

\* publish_depth after try_push has returned: one of the two counters
CountAttempt ==
    /\ bus_pc = "try_push" /\ p_pc = "idle"
    /\ IF p_ret = "true"
         THEN events_published' = events_published + 1 /\ UNCHANGED events_dropped
         ELSE events_dropped' = events_dropped + 1 /\ UNCHANGED events_published
    /\ bus_pc' = "idle"
    /\ UNCHANGED attempts

\* OBITradingEngine::stop, main.cpp 614-617: event_loop_->stop().  The loop
\* is taken to leave between two try_pop calls, after one that found the
\* ring empty
StopEventLoop ==
    /\ loop_running
    /\ c_pc = "idle" /\ tail = head
    /\ loop_running' = FALSE
    /\ UNCHANGED client_running

\* OBITradingEngine::stop, main.cpp 619: client_->stop(), reached after the
\* event loop was stopped; a publish_depth in progress finishes first
StopClient ==
    /\ ~loop_running
    /\ client_running
    /\ bus_pc = "idle"
    /\ client_running' = FALSE
    /\ UNCHANGED loop_running

LiveNext ==
    \/ PublishDepth /\ UNCHANGED stopVars
    \/ (P_LoadTail \/ P_WriteSlot \/ P_StoreHead) /\ UNCHANGED <<busVars, stopVars>>
    \/ CountAttempt /\ UNCHANGED <<ringVars, stopVars>>
    \/ loop_running /\ C_LoadTail /\ UNCHANGED <<busVars, stopVars>>
    \/ (C_LoadHead \/ C_ReadSlot \/ C_StoreTail) /\ UNCHANGED <<busVars, stopVars>>
    \/ StopEventLoop /\ UNCHANGED <<ringVars, busVars>>
    \/ StopClient /\ UNCHANGED <<ringVars, busVars>>

\* ========================================================================
\* The live process: main(), the signal handlers, EventLoop::run
\* ========================================================================

EventKinds == {"Depth", "Timer", "Shutdown"}

ProcInit ==
    /\ g_running = TRUE
    /\ main_pc = "run"
    /\ exit_code = -1
    /\ stats_printed = 0
    /\ kinds = [i \in 1..MaxPush |-> "Depth"]
    /\ dispatched = <<>>
    /\ loop_parity = 0
    /\ signalled = {}

\* a dispatch that takes every event for a depth event
HandlerOf_AlwaysDepth(kind) == "on_depth_event"

\* the IEventHandler method an event of a kind is dispatched to
\* (main.cpp 723-783 implements the three of them)
HandlerOf(kind) ==
    IF kind = "Depth" THEN "on_depth_event"
    ELSE IF kind = "Timer" THEN "on_timer_event"
    ELSE "on_shutdown_event"

\* OBITradingEngine::stop (main.cpp 608-619 and the statistics after them)
EngineStop ==
    /\ loop_running' = FALSE
    /\ client_running' = FALSE
    /\ stats_printed' = stats_printed + 1

\* a signal is delivered.  SIGTERM runs signal_handler (main.cpp 53-56,
\* registered at 1099); SIGINT runs the lambda registered at 1165-1170,
\* which also calls engine.stop()
Signal(sig) ==
    /\ sig \notin signalled
    /\ main_pc # "exit"
    /\ signalled' = signalled \cup {sig}
    /\ g_running' = FALSE
    /\ IF sig = "SIGINT"
         THEN EngineStop
         ELSE UNCHANGED <<loop_running, client_running, stats_printed>>
    /\ UNCHANGED <<ringVars, busVars, main_pc, exit_code, kinds, dispatched, loop_parity>>

\* the network thread publishes an event of some kind (at most one
\* ShutdownEvent)
Net_Publish ==
    \E k \in EventKinds :
        /\ k = "Shutdown" => \A i \in DOMAIN kinds : kinds[i] # "Shutdown"
        /\ client_running
        /\ nextId <= MaxEvents
        /\ P_LoadHead
        /\ kinds' = [kinds EXCEPT ![nextId] = k]
        /\ UNCHANGED <<busVars, stopVars, g_running, main_pc, exit_code,
                       stats_printed, dispatched, loop_parity, signalled>>

\* the network thread goes on with its try_push
Net_Step ==
    /\ P_LoadTail \/ P_WriteSlot \/ P_StoreHead
    /\ UNCHANGED <<busVars, stopVars, procVars>>

\* the event loop is leaving: stop() was called or a ShutdownEvent was
\* dispatched
LoopExiting ==
    \/ ~loop_running
    \/ \E i \in 1..Len(dispatched) : dispatched[i].handler = "on_shutdown_event"

\* EventLoop::run, drain: the next try_pop
Loop_TryPop ==
    /\ main_pc = "run"
    /\ ~LoopExiting
    /\ Len(dispatched) = Len(popped)
    /\ C_LoadTail
    /\ UNCHANGED <<busVars, stopVars, procVars>>

Loop_PopStep ==
    /\ main_pc = "run"
    /\ C_LoadHead \/ C_ReadSlot \/ C_StoreTail
    /\ UNCHANGED <<busVars, stopVars, procVars>>

\* EventLoop::run, drain: the popped event goes to its handler
Loop_Dispatch ==
    /\ main_pc = "run"
    /\ c_pc = "idle"
    /\ Len(dispatched) < Len(popped)
    /\ LET item == popped[Len(dispatched) + 1]
       IN  dispatched' = Append(dispatched,
                                [item |-> item, handler |-> HandlerOf(kinds[item])])
    /\ UNCHANGED <<ringVars, busVars, stopVars, g_running, main_pc, exit_code,
                   stats_printed, kinds, loop_parity, signalled>>

\* EventLoop::run, timers and idle wait: one pass that found nothing to pop
Loop_Idle ==
    /\ main_pc = "run"
    /\ ~LoopExiting
    /\ c_pc = "idle"
    /\ Len(dispatched) = Len(popped)
    /\ loop_parity' = 1 - loop_parity
    /\ UNCHANGED <<ringVars, busVars, stopVars, g_running, main_pc, exit_code,
                   stats_printed, kinds, dispatched, signalled>>

\* EventLoop::run returns, and with it engine.run() (main.cpp 601-605, 1177)
Loop_Return ==
    /\ main_pc = "run"
    /\ LoopExiting
    /\ c_pc = "idle"
    /\ Len(dispatched) = Len(popped)
    /\ main_pc' = "stop"
    /\ UNCHANGED <<ringVars, busVars, stopVars, g_running, exit_code,
                   stats_printed, kinds, dispatched, loop_parity, signalled>>

\* main.cpp 1178-1188: engine.stop(); return 0
Main_Stop ==
    /\ main_pc = "stop"
    /\ EngineStop
    /\ main_pc' = "exit"
    /\ exit_code' = 0
    /\ UNCHANGED <<ringVars, busVars, g_running, kinds, dispatched, loop_parity,
                   signalled>>

\* the steps of the main thread
MainThread ==
    /\ Loop_TryPop \/ Loop_PopStep \/ Loop_Dispatch \/ Loop_Idle \/ Loop_Return
         \/ Main_Stop
    /\ UNCHANGED <<now, bookVars, filterVars, riskVars, engineVars, idVars,
                   trackerVars, obiVars, pushVars, mpscVars>>

ProcNext ==
    \/ MainThread
    \/ /\ Net_Publish \/ Net_Step \/ (\E sig \in {"SIGINT", "SIGTERM"} : Signal(sig))
       /\ UNCHANGED <<now, bookVars, filterVars, riskVars, engineVars, idVars,
                      trackerVars, obiVars, pushVars, mpscVars>>

\* ========================================================================
\* OrderBook
\* ========================================================================

Prices == 1..PriceMax
\* Quantity raw values: 0 removes a level, two distinct non-zero amounts
Quantities == {0, 1, 2}

\* {price, qty, 0, 0}
Level(price, qty) == [price |-> price, quantity |-> qty]

\* std::lower_bound over arr[first, first+len) (0-based), libstdc++'s loop;
\* desc: the bid comparator level.price > p, else the ask one level.price < p
RECURSIVE lower_bound(_, _, _, _, _)
lower_bound(arr, first, len, p, desc) ==
    IF len <= 0 THEN first
    ELSE LET half == len \div 2
             mid == first + half
             comp == IF desc THEN arr[mid + 1].price > p ELSE arr[mid + 1].price < p
         IN  IF comp THEN lower_bound(arr, mid + 1, len - half - 1, p, desc)
             ELSE lower_bound(arr, first, half, p, desc)

\* std::move_backward(it, end, end + 1); arr[idx] = lv  (idx 0-based)
ShiftInsert(arr, idx, lv) ==
    SubSeq(arr, 1, idx) \o <<lv>> \o SubSeq(arr, idx + 1, Len(arr))

\* the new level overwrites the one at idx, nothing is shifted
ReplaceWorst_Overwrite(arr, idx, lv) == [arr EXCEPT ![idx + 1] = lv]

\* the branch of a full side: std::move_backward(it, begin + MAX_LEVELS - 1,
\* begin + MAX_LEVELS); arr[idx] = lv  (idx 0-based, idx < MAX_LEVELS)
ReplaceWorst(arr, idx, lv) ==
    SubSeq(arr, 1, idx) \o <<lv>> \o SubSeq(arr, idx + 1, MAX_LEVELS - 1)

\* the 0-based array indices insert_bid / insert_ask read or write on a
\* side of count levels once lower_bound has returned idx: the comparison
\* with the level at idx, then the source and the destination of
\* move_backward and the slot assigned
InsertAccesses(count, idx) ==
    (IF idx < count THEN {idx} ELSE {})
    \cup (IF count < MAX_LEVELS
            THEN (idx..(count - 1)) \cup ((idx + 1)..count) \cup {idx}
          ELSE IF idx < MAX_LEVELS
            THEN (idx..(MAX_LEVELS - 2)) \cup ((idx + 1)..(MAX_LEVELS - 1)) \cup {idx}
          ELSE {})

\* std::move(it + 1, end, it); --count  (idx 0-based)
ShiftRemove(arr, idx) ==
    SubSeq(arr, 1, idx) \o SubSeq(arr, idx + 2, Len(arr))

\* std::find_if(begin, begin + count, price ==): 0-based index, count if absent
find_if(arr, price) ==
    LET hits == {i \in 1..Len(arr) : arr[i].price = price}
    IN  IF hits = {} THEN Len(arr)
        ELSE (CHOOSE i \in hits : \A j \in hits : i <= j) - 1

\* insertion with the comparator of the asks
insert_bid_AskComparator(bs, price, qty) ==
    LET idx == lower_bound(bs, 0, Len(bs), price, FALSE)
    IN  IF idx < Len(bs) /\ bs[idx + 1].price = price
          THEN [bs EXCEPT ![idx + 1].quantity = qty]
        ELSE IF Len(bs) < MAX_LEVELS
          THEN ShiftInsert(bs, idx, Level(price, qty))
        ELSE IF idx < MAX_LEVELS
          THEN SubSeq(ShiftInsert(bs, idx, Level(price, qty)), 1, MAX_LEVELS)
        ELSE bs

\* OrderBook::insert_bid
insert_bid(bs, price, qty) ==
    LET idx == lower_bound(bs, 0, Len(bs), price, TRUE)
    IN  IF idx < Len(bs) /\ bs[idx + 1].price = price
          THEN [bs EXCEPT ![idx + 1].quantity = qty]
        ELSE IF Len(bs) < MAX_LEVELS
          THEN ShiftInsert(bs, idx, Level(price, qty))
        ELSE IF idx < MAX_LEVELS
          THEN ReplaceWorst(bs, idx, Level(price, qty))
        ELSE bs

\* OrderBook::insert_ask
insert_ask(as, price, qty) ==
    LET idx == lower_bound(as, 0, Len(as), price, FALSE)
    IN  IF idx < Len(as) /\ as[idx + 1].price = price
          THEN [as EXCEPT ![idx + 1].quantity = qty]
        ELSE IF Len(as) < MAX_LEVELS
          THEN ShiftInsert(as, idx, Level(price, qty))
        ELSE IF idx < MAX_LEVELS
          THEN ReplaceWorst(as, idx, Level(price, qty))
        ELSE as

\* a removal that decrements the count without shifting the levels down
remove_bid_NoShift(bs, price) ==
    LET idx == find_if(bs, price)
    IN  IF idx # Len(bs) THEN SubSeq(bs, 1, Len(bs) - 1) ELSE bs

\* OrderBook::remove_bid
remove_bid(bs, price) ==
    LET idx == find_if(bs, price)
    IN  IF idx # Len(bs) THEN ShiftRemove(bs, idx) ELSE bs

\* OrderBook::remove_ask
remove_ask(as, price) ==
    LET idx == find_if(as, price)
    IN  IF idx # Len(as) THEN ShiftRemove(as, idx) ELSE as

\* an update that inserts the level even when the quantity is zero
update_bid_NoRemove(bs, price, qty) == insert_bid(bs, price, qty)

\* OrderBook::update_bid (the bid side after the call)
update_bid(bs, price, qty) ==
    IF qty = 0 THEN remove_bid(bs, price) ELSE insert_bid(bs, price, qty)

\* OrderBook::update_ask (the ask side after the call)
update_ask(as, price, qty) ==
    IF qty = 0 THEN remove_ask(as, price) ELSE insert_ask(as, price, qty)

\* OrderBook::OrderBook -> clear()
BookInit ==
    /\ bids = <<>>
    /\ asks = <<>>
    /\ last_update_time = 0
    /\ last_update_id = 0
    /\ book_op = "clear"
    /\ feed_bids = {}
    /\ feed_asks = {}

\* the prices the caller has set and not removed on one side
FeedAfter(feed, price, qty) == IF qty = 0 THEN feed \ {price} ELSE feed \cup {price}

\* a call book.update_bid(price, qty)
UpdateBid(price, qty) ==
    /\ last_update_time' = now
    /\ bids' = update_bid(bids, price, qty)
    /\ book_op' = "update_bid"
    /\ feed_bids' = FeedAfter(feed_bids, price, qty)
    /\ UNCHANGED <<asks, feed_asks, last_update_id>>

\* a call book.update_ask(price, qty)
UpdateAsk(price, qty) ==
    /\ last_update_time' = now
    /\ asks' = update_ask(asks, price, qty)
    /\ book_op' = "update_ask"
    /\ feed_asks' = FeedAfter(feed_asks, price, qty)
    /\ UNCHANGED <<bids, feed_bids, last_update_id>>

\* the spans passed to update_batch: up to one level per side, to set with
\* quantity 1 or to remove
Batches == {<<>>} \cup {<<Level(p, q)>> : p \in Prices, q \in {0, 1}}

RECURSIVE ApplyBids(_, _)
ApplyBids(bs, levels) ==
    IF levels = <<>> THEN bs
    ELSE ApplyBids(update_bid(bs, Head(levels).price, Head(levels).quantity), Tail(levels))

RECURSIVE ApplyAsks(_, _)
ApplyAsks(as, levels) ==
    IF levels = <<>> THEN as
    ELSE ApplyAsks(update_ask(as, Head(levels).price, Head(levels).quantity), Tail(levels))

RECURSIVE ApplyFeed(_, _)
ApplyFeed(feed, levels) ==
    IF levels = <<>> THEN feed
    ELSE ApplyFeed(FeedAfter(feed, Head(levels).price, Head(levels).quantity), Tail(levels))

\* a call book.update_batch(bs, as): the bids in order, then the asks
UpdateBatch(bs, as) ==
    /\ last_update_time' = IF bs = <<>> /\ as = <<>> THEN last_update_time ELSE now
    /\ bids' = ApplyBids(bids, bs)
    /\ asks' = ApplyAsks(asks, as)
    /\ book_op' = "update_batch"
    /\ feed_bids' = ApplyFeed(feed_bids, bs)
    /\ feed_asks' = ApplyFeed(feed_asks, as)
    /\ UNCHANGED last_update_id

\* clear without the reset of the level count
clear_KeepsLevels(side) == side

\* OrderBook::clear on one side: its count is set to 0
clear(side) == <<>>

\* the first MAX_LEVELS levels of a span
Truncated(levels) ==
    SubSeq(levels, 1, IF Len(levels) < MAX_LEVELS THEN Len(levels) ELSE MAX_LEVELS)

\* a call book.initialize(bs, as, id)
BookInitialize(bs, as, id) ==
    /\ bids' = Truncated(bs)
    /\ asks' = Truncated(as)
    /\ last_update_id' = id
    /\ last_update_time' = now
    /\ book_op' = "initialize"
    /\ feed_bids' = {bs[i].price : i \in 1..Len(bs)}
    /\ feed_asks' = {as[i].price : i \in 1..Len(as)}

\* a call book.clear()
BookClear ==
    /\ bids' = clear(bids)
    /\ asks' = clear(asks)
    /\ last_update_id' = 0
    /\ book_op' = "clear"
    /\ feed_bids' = {}
    /\ feed_asks' = {}
    /\ UNCHANGED last_update_time

\* a call book.set_last_update_id(id)
SetLastUpdateId(id) ==
    /\ last_update_id' = id
    /\ book_op' = "set_last_update_id"
    /\ UNCHANGED <<bids, asks, last_update_time, feed_bids, feed_asks>>

\* the caller applies any update, in any order
BookNext ==
    \/ \E p \in Prices, q \in Quantities : UpdateBid(p, q)
    \/ \E p \in Prices, q \in Quantities : UpdateAsk(p, q)
    \/ \E bs \in Batches, as \in Batches : UpdateBatch(bs, as)


\* ========================================================================
\* SignalFilter  (imbalances in 1/100, spreads in 1/100 of a percent)
\* ========================================================================

\* SignalFilterConfig defaults
imbalance_threshold == 60
high_conviction_threshold == 70
high_conviction_ticks == 1
max_spread_pct == 5

\* the smoothed imbalances and spreads fed to the filter
Imbalances == {-80, -65, -30, 0, 30, 65, 80}
Spreads == {1, 9}

Abs(x) == IF x < 0 THEN -x ELSE x

\* SignalFilter::get_direction
get_direction(imbalance) ==
    IF imbalance > 0 THEN "Buy" ELSE IF imbalance < 0 THEN "Sell" ELSE "None"

\* the streak survives
reset_streak_Keeps(f) == f

\* SignalFilter::reset_streak
reset_streak(f) == [f EXCEPT !.consecutive_ticks = 0]

\* one timer for both directions
cooldown_active_SharedTimer(f, direction, t) ==
    IF direction = "Buy" THEN t - f.last_sell_time < cooldown_seconds
    ELSE IF direction = "Sell" THEN t - f.last_sell_time < cooldown_seconds
    ELSE FALSE

\* filter() lines 98-110: the cooldown check of the signal's direction
cooldown_active(f, direction, t) ==
    IF direction = "Buy" THEN t - f.last_buy_time < cooldown_seconds
    ELSE IF direction = "Sell" THEN t - f.last_sell_time < cooldown_seconds
    ELSE FALSE

\* filter() lines 118-123: the timer update (the else branch takes None too)
update_timers(f, direction, t) ==
    IF direction = "Buy" THEN [f EXCEPT !.last_buy_time = t]
    ELSE [f EXCEPT !.last_sell_time = t]

\* one tick is enough whatever the imbalance
required_ticks_AlwaysHigh(abs_imb) == high_conviction_ticks

\* filter() lines 89-92: the ticks the imbalance requires
required_ticks(abs_imb) ==
    IF abs_imb >= high_conviction_threshold
      THEN high_conviction_ticks ELSE confirmation_ticks

\* SignalFilter::filter at time t, with config_.imbalance_threshold =
\* threshold: the filter afterwards and the signal type
filter(f, threshold, imbalance, spread_pct, t) ==
    LET current_direction == get_direction(imbalance)
        f1 == IF current_direction # f.last_direction
                THEN [f EXCEPT !.consecutive_ticks = 0,
                               !.last_direction = current_direction]
                ELSE f
        abs_imb == Abs(imbalance)
        f2 == [f1 EXCEPT !.consecutive_ticks = @ + 1]
    IN  IF spread_pct > max_spread_pct
          THEN [f |-> reset_streak(f1), type |-> "None"]
        ELSE IF abs_imb < threshold
          THEN [f |-> reset_streak(f1), type |-> "None"]
        ELSE IF f2.consecutive_ticks < required_ticks(abs_imb)
          THEN [f |-> f2, type |-> "None"]
        ELSE IF cooldown_active(f2, current_direction, t)
          THEN [f |-> f2, type |-> "None"]
        ELSE [f |-> reset_streak(update_timers(f2, current_direction, t)),
              type |-> current_direction]

\* SignalFilter::SignalFilter
FilterInit ==
    /\ filt = [last_direction |-> "None", consecutive_ticks |-> 0,
               last_buy_time |-> 0, last_sell_time |-> 0]
    /\ f_signal = "None"
    /\ emit_time = [d \in {"Buy", "Sell"} |-> -1]
    /\ emit_gap = [d \in {"Buy", "Sell"} |-> -1]
    /\ streak = [dir |-> "None", n |-> 0, counted |-> 0, required |-> 0,
                 gated |-> FALSE, changed |-> FALSE, prev |-> 0]

\* the streak after a tick that returned type: a tick counts when it passes
\* the spread gate and the threshold gate, it continues the count of the
\* ticks before it when it has their direction, and a qualified signal or a
\* tick that does not count ends the streak; gated: the tick failed the
\* spread or the threshold gate, changed: its direction is not the one of
\* the tick before, prev: the counter it found
StreakAfter(s, imbalance, spread_pct, type) ==
    LET d == get_direction(imbalance)
        passes == spread_pct <= max_spread_pct /\ Abs(imbalance) >= imbalance_threshold
        c == IF passes THEN (IF d = s.dir THEN s.n ELSE 0) + 1 ELSE 0
    IN  [dir |-> d, n |-> IF type # "None" THEN 0 ELSE c, counted |-> c,
         required |-> IF Abs(imbalance) >= high_conviction_threshold
                        THEN high_conviction_ticks ELSE confirmation_ticks,
         gated |-> ~passes, changed |-> d # s.dir, prev |-> s.n]

\* the record of the qualified signals, for the claims about them
EmitRecorded(type, t) ==
    IF type = "None" THEN UNCHANGED <<emit_time, emit_gap>>
    ELSE /\ emit_time' = [emit_time EXCEPT ![type] = t]
         /\ emit_gap' = IF emit_time[type] = -1 THEN emit_gap
                        ELSE IF emit_gap[type] = -1 \/ t - emit_time[type] < emit_gap[type]
                          THEN [emit_gap EXCEPT ![type] = t - emit_time[type]]
                        ELSE emit_gap

\* one call filter(imbalance, spread_pct, bid, ask) at the current time
FilterTick(imbalance, spread_pct) ==
    /\ filt.consecutive_ticks < MaxStreak
    /\ LET r == filter(filt, imbalance_threshold, imbalance, spread_pct, now)
       IN  /\ filt' = r.f
           /\ f_signal' = r.type
           /\ EmitRecorded(r.type, now)
           /\ streak' = StreakAfter(streak, imbalance, spread_pct, r.type)

\* the monotonic clock advances by one second
FilterClock ==
    /\ now < FilterMaxTime
    /\ now' = now + 1

FilterNext ==
    \/ \E i \in Imbalances, sp \in Spreads : FilterTick(i, sp) /\ UNCHANGED now
    \/ FilterClock /\ UNCHANGED filterVars


\* ========================================================================
\* strategy::OrderBookImbalance and strategy::ImbalanceSignalGenerator
\*   quantities in whole units; a double is the fraction [n, d] in lowest
\*   terms with d > 0, and the arithmetic on it is exact
\* ========================================================================

RECURSIVE Gcd(_, _)
Gcd(a, b) == IF b = 0 THEN a ELSE Gcd(b, a % b)

\* the fraction n/d (d > 0) in lowest terms
Frac(n, d) ==
    LET g == Gcd(Abs(n), d)
    IN  [n |-> (IF n < 0 THEN -1 ELSE 1) * (Abs(n) \div g), d |-> d \div g]

FracAdd(a, b) == Frac(a.n * b.d + b.n * a.d, a.d * b.d)
FracSub(a, b) == Frac(a.n * b.d - b.n * a.d, a.d * b.d)
FracMul(a, b) == Frac(a.n * b.n, a.d * b.d)
FracLess(a, b) == a.n * b.d < b.n * a.d
\* -1 <= a <= 1
InUnitRange(a) == Abs(a.n) <= a.d

\* the value of a double member the constructor does not initialize
Indeterminate == [n |-> 0, d |-> 0]

\* a slice of one side of a book, best level first: the levels' quantities
\* (a level the book holds has a quantity other than zero)
Slices == UNION {[1..k -> {1, QtyMax}] : k \in 0..MAX_LEVELS}

\* ImbalanceSignalGenerator::Config, as the configuration file can set it
ObiConfigs ==
    [depth_levels : 0..MaxDepthLevels, smoothing_period : 0..MaxSmoothing]

Min3(a, b, c) ==
    LET m == IF a < b THEN a ELSE b IN IF m < c THEN m ELSE c

\* sum of q[i] * w[i] over the first n levels
RECURSIVE WeightedSum(_, _, _)
WeightedSum(q, w, n) ==
    IF n = 0 THEN 0 ELSE WeightedSum(q, w, n - 1) + q[n] * w[n]

\* OrderBookImbalance::calculate(bids, asks, levels)
calculate(bid_levels, ask_levels, levels) ==
    IF bid_levels = <<>> \/ ask_levels = <<>> THEN Frac(0, 1)
    ELSE
      LET n == Min3(levels, Len(bid_levels), Len(ask_levels))
          one == [i \in 1..MAX_LEVELS |-> 1]
          bid_volume == WeightedSum(bid_levels, one, n)
          ask_volume == WeightedSum(ask_levels, one, n)
          total == bid_volume + ask_volume
      IN  IF total = 0 THEN Frac(0, 1)
          ELSE Frac(bid_volume - ask_volume, total)

\* OrderBookImbalance::calculate_weighted(bids, asks, levels); the level at
\* index i (from 0) has weight 1 - i / levels, here (levels - i) with the
\* common divisor levels left out of both volumes
calculate_weighted(bid_levels, ask_levels, levels) ==
    IF bid_levels = <<>> \/ ask_levels = <<>> THEN Frac(0, 1)
    ELSE
      LET n == Min3(levels, Len(bid_levels), Len(ask_levels))
          weight == [i \in 1..MAX_LEVELS |-> levels - (i - 1)]
          bid_volume == WeightedSum(bid_levels, weight, n)
          ask_volume == WeightedSum(ask_levels, weight, n)
          total == bid_volume + ask_volume
      IN  IF total = 0 THEN Frac(0, 1)
          ELSE Frac(bid_volume - ask_volume, total)

\* the smoothing without the (1 - alpha) factor on the old value
ema_Undamped(raw_imbalance, smoothed, smoothing_period) ==
    FracAdd(FracMul(Frac(2, smoothing_period + 1), raw_imbalance), smoothed)

\* the EMA step of update: alpha * raw + (1 - alpha) * smoothed
ema(raw_imbalance, smoothed, smoothing_period) ==
    LET alpha == Frac(2, smoothing_period + 1)
    IN  FracAdd(FracMul(alpha, raw_imbalance),
                FracMul(FracSub(Frac(1, 1), alpha), smoothed))

\* ImbalanceSignalGenerator::update(bids, asks) on the generator g
update(g, config, bid_levels, ask_levels) ==
    LET raw_imbalance == calculate(bid_levels, ask_levels, config.depth_levels)
    IN  [smoothed_imbalance |->
             IF g.sample_count = 0 THEN raw_imbalance
             ELSE ema(raw_imbalance, g.smoothed_imbalance, config.smoothing_period),
         raw_imbalance |-> raw_imbalance,
         sample_count |-> g.sample_count + 1]

\* ImbalanceSignalGenerator(config)
ObiConstructed(config) ==
    /\ obi_config = config
    /\ obi = [smoothed_imbalance |-> Frac(0, 1), raw_imbalance |-> Indeterminate,
              sample_count |-> 0]
    /\ obi_in = [empty |-> TRUE, bid_volume |-> 0, ask_volume |-> 0,
                 weighted |-> Frac(0, 1)]

\* the generator the engine constructs from its default configuration
ObiInit == ObiConstructed([depth_levels |-> 10, smoothing_period |-> 10])

ObiUpdate(bid_levels, ask_levels) ==
    /\ obi.sample_count < MaxSamples
    /\ obi' = update(obi, obi_config, bid_levels, ask_levels)
    /\ LET n == Min3(obi_config.depth_levels, Len(bid_levels), Len(ask_levels))
           one == [i \in 1..MAX_LEVELS |-> 1]
       IN  obi_in' = [empty |-> bid_levels = <<>> \/ ask_levels = <<>>,
                      bid_volume |-> WeightedSum(bid_levels, one, n),
                      ask_volume |-> WeightedSum(ask_levels, one, n),
                      weighted |-> calculate_weighted(bid_levels, ask_levels,
                                                      obi_config.depth_levels)]
    /\ UNCHANGED obi_config

\* a generator that is ready from its construction
is_ready_Always(g, config) == TRUE

\* ImbalanceSignalGenerator::is_ready
is_ready(g, config) == g.sample_count >= config.smoothing_period

\* ImbalanceSignalGenerator::reset
ObiReset ==
    /\ obi.sample_count > 0
    /\ obi' = [smoothed_imbalance |-> Frac(0, 1), raw_imbalance |-> Frac(0, 1),
               sample_count |-> 0]
    /\ UNCHANGED <<obi_config, obi_in>>

ObiNext ==
    \/ \E bid_levels \in Slices, ask_levels \in Slices :
          ObiUpdate(bid_levels, ask_levels)
    \/ ObiReset


\* ========================================================================
\* risk::RiskManager
\*   percentages in 1/100 of a percent, dollars in whole dollars, prices in
\*   whole dollars; a double is [nan, v]: NaN, or the number v
\* ========================================================================

D(v) == [nan |-> FALSE, v |-> v]
NaN == [nan |-> TRUE, v |-> 0]
\* operator< and operator>= on doubles: false when an operand is NaN
DLess(a, b) == ~a.nan /\ ~b.nan /\ a.v < b.v
DGreaterEq(a, b) == ~a.nan /\ ~b.nan /\ a.v >= b.v
DLessEq(a, b) == ~a.nan /\ ~b.nan /\ a.v <= b.v
\* std::max(a, b) is (a < b) ? b : a;  std::min(a, b) is (b < a) ? b : a
StdMax(a, b) == IF DLess(a, b) THEN b ELSE a
StdMin(a, b) == IF DLess(b, a) THEN b ELSE a

\* namespace limits
MIN_STOP_LOSS_PCT == 20
MAX_POSITION_USD == 500
MIN_ORDER_INTERVAL_MS == 10000
MAX_DAILY_TRADES == 20

\* RiskConfig with its default member initialisers
DefaultRiskConfig ==
    [max_position_usd |-> D(100), max_open_positions |-> 1,
     min_order_interval_ms |-> 30000,
     stop_loss_pct |-> D(25), take_profit_pct |-> 50, max_daily_loss_usd |-> 50]

\* the RiskConfig the engine builds (main.cpp 231-235)
EngineRiskConfig == [DefaultRiskConfig EXCEPT !.max_position_usd = D(300)]

\* the configurations handed to the constructor in this model
RiskConfigs ==
    { DefaultRiskConfig, EngineRiskConfig,
      [DefaultRiskConfig EXCEPT !.stop_loss_pct = D(0), !.max_position_usd = D(900),
                                !.min_order_interval_ms = 0],
      [DefaultRiskConfig EXCEPT !.stop_loss_pct = D(-5), !.max_position_usd = D(-1),
                                !.min_order_interval_ms = -1],
      [DefaultRiskConfig EXCEPT !.stop_loss_pct = NaN, !.min_order_interval_ms = 0],
      [DefaultRiskConfig EXCEPT !.max_daily_loss_usd = 0],
      [DefaultRiskConfig EXCEPT !.take_profit_pct = 0, !.stop_loss_pct = D(10),
                                !.min_order_interval_ms = 0],
      [DefaultRiskConfig EXCEPT !.max_position_usd = NaN, !.min_order_interval_ms = 9999] }

\* the configured stop loss is taken as it is
apply_hardcoded_limits_NoStopFloor(config) ==
    [config EXCEPT
        !.max_position_usd = StdMin(config.max_position_usd, D(MAX_POSITION_USD)),
        !.min_order_interval_ms =
            IF config.min_order_interval_ms < MIN_ORDER_INTERVAL_MS
              THEN MIN_ORDER_INTERVAL_MS ELSE config.min_order_interval_ms]

\* RiskManager::apply_hardcoded_limits
apply_hardcoded_limits(config) ==
    [config EXCEPT
        !.stop_loss_pct = StdMax(config.stop_loss_pct, D(MIN_STOP_LOSS_PCT)),
        !.max_position_usd = StdMin(config.max_position_usd, D(MAX_POSITION_USD)),
        !.min_order_interval_ms =
            IF config.min_order_interval_ms < MIN_ORDER_INTERVAL_MS
              THEN MIN_ORDER_INTERVAL_MS ELSE config.min_order_interval_ms]

\* can_trade without the daily trade limit
can_trade_decision_NoTradeLimit(r, config, t) ==
    IF r.daily_pnl <= -config.max_daily_loss_usd THEN "RejectedDailyLoss"
    ELSE IF r.open_positions >= config.max_open_positions THEN "RejectedPositionLimit"
    ELSE IF (t - r.last_order_time) * 1000 < config.min_order_interval_ms
      THEN "RejectedCooldown"
    ELSE "Approved"

\* can_trade with the position gate tested before the daily gates
can_trade_decision_PositionFirst(r, config, t) ==
    IF r.open_positions >= config.max_open_positions THEN "RejectedPositionLimit"
    ELSE IF r.daily_pnl <= -config.max_daily_loss_usd THEN "RejectedDailyLoss"
    ELSE IF r.daily_trades >= MAX_DAILY_TRADES THEN "RejectedMaxTrades"
    ELSE IF (t - r.last_order_time) * 1000 < config.min_order_interval_ms
      THEN "RejectedCooldown"
    ELSE "Approved"

\* RiskManager::can_trade lines 86-119: the decision, at time t (seconds)
can_trade_decision(r, config, t) ==
    IF r.daily_pnl <= -config.max_daily_loss_usd THEN "RejectedDailyLoss"
    ELSE IF r.daily_trades >= MAX_DAILY_TRADES THEN "RejectedMaxTrades"
    ELSE IF r.open_positions >= config.max_open_positions THEN "RejectedPositionLimit"
    ELSE IF (t - r.last_order_time) * 1000 < config.min_order_interval_ms
      THEN "RejectedCooldown"
    ELSE "Approved"

\* a price of v dollars and frac/10000 dollar (frac may be negative)
DPrice(v, frac) == [nan |-> FALSE, v |-> v, frac |-> frac]
NaNPrice == [nan |-> TRUE, v |-> 0, frac |-> 0]

\* RiskManager::can_trade at time t: the TradeResult; entry_price in
\* dollars, the offsets of stop_loss_price and take_profit_price from it in
\* 1/10000 dollar
can_trade(r, config, entry_price, is_long, t) ==
    LET decision == can_trade_decision(r, config, t)
        sl_pct == config.stop_loss_pct
        sl_offset == entry_price * sl_pct.v
        tp_offset == entry_price * config.take_profit_pct
    IN  IF decision # "Approved"
          THEN [decision |-> decision, position_size_usd |-> D(0),
                stop_loss_price |-> DPrice(0, 0), take_profit_price |-> DPrice(0, 0)]
          ELSE [decision |-> decision,
                position_size_usd |-> config.max_position_usd,
                stop_loss_price |->
                    IF sl_pct.nan THEN NaNPrice
                    ELSE IF is_long THEN DPrice(entry_price, -sl_offset)
                    ELSE DPrice(entry_price, sl_offset),
                take_profit_price |->
                    IF is_long THEN DPrice(entry_price, tp_offset)
                    ELSE DPrice(entry_price, -tp_offset)]

\* RiskManager::on_order_placed at time t
on_order_placed(r, t) ==
    [r EXCEPT !.last_order_time = t,
              !.open_positions = @ + 1,
              !.daily_trades = @ + 1]

\* a close that counts below zero
on_position_closed_NoFloor(r, pnl) ==
    [r EXCEPT !.open_positions = @ - 1,
              !.daily_pnl = @ + pnl]

\* RiskManager::on_position_closed
on_position_closed(r, pnl) ==
    [r EXCEPT !.open_positions = IF @ - 1 > 0 THEN @ - 1 ELSE 0,
              !.daily_pnl = @ + pnl]

\* a reset of the trade count only
reset_daily_stats_KeepsPnl(r) == [r EXCEPT !.daily_trades = 0]

\* RiskManager::reset_daily_stats
reset_daily_stats(r) == [r EXCEPT !.daily_pnl = 0, !.daily_trades = 0]

\* RiskManager::RiskManager(config)
RiskConstructed(config) ==
    /\ cfg_in = config
    /\ risk_cfg = apply_hardcoded_limits(config)
    /\ risk = reset_daily_stats([open_positions |-> 0, daily_trades |-> 0,
                                 daily_pnl |-> 0, last_order_time |-> 0])
    /\ risk_op = "RiskManager"
    /\ risk_result = "none"
    /\ pnl_sum = 0

\* a call can_trade(entry_price, is_long)
CanTrade ==
    /\ \E entry_price \in {1, 50000}, is_long \in BOOLEAN :
          risk_result' = can_trade(risk, risk_cfg, entry_price, is_long, now).decision
    /\ risk_op' = "can_trade"
    /\ UNCHANGED <<cfg_in, risk_cfg, risk, pnl_sum>>

\* a call on_order_placed()
OnOrderPlaced ==
    /\ risk.open_positions < MaxOpen
    /\ risk.daily_trades < MaxTrades
    /\ risk' = on_order_placed(risk, now)
    /\ risk_op' = "on_order_placed"
    /\ UNCHANGED <<cfg_in, risk_cfg, risk_result, pnl_sum>>

\* a call on_position_closed(pnl)
OnPositionClosed(pnl) ==
    /\ Abs(risk.daily_pnl + pnl) <= PnlMax
    /\ risk' = on_position_closed(risk, pnl)
    /\ risk_op' = "on_position_closed"
    /\ pnl_sum' = pnl_sum + pnl
    /\ UNCHANGED <<cfg_in, risk_cfg, risk_result>>

\* a call reset_daily_stats()
ResetDailyStats ==
    /\ risk' = reset_daily_stats(risk)
    /\ risk_op' = "reset_daily_stats"
    /\ pnl_sum' = 0
    /\ UNCHANGED <<cfg_in, risk_cfg, risk_result>>

\* the monotonic clock advances by five seconds
RiskClock ==
    /\ now + 5 <= RiskMaxTime
    /\ now' = now + 5

RiskNext ==
    \/ CanTrade /\ UNCHANGED now
    \/ OnOrderPlaced /\ UNCHANGED now
    \/ \E pnl \in {-50, 0, 50} : OnPositionClosed(pnl) /\ UNCHANGED now
    \/ ResetDailyStats /\ UNCHANGED now
    \/ RiskClock /\ UNCHANGED riskVars


\* ========================================================================
\* OBITradingEngine (main.cpp), order::OrderManager, order::PositionTracker and
\* the exchange behind IBinanceClient
\*   prices in dollars, quantities in 1/1000 unit
\* ========================================================================

\* config_.symbol and the symbols depth updates arrive for
ConfigSymbol == "BTCUSDT"
Symbols == {"BTCUSDT", "ETHUSDT"}

\* the depth updates: a tight book, a wide book, a book without asks, a
\* tight book at a price above 600000
Snapshots ==
    { [bids |-> <<Level(49999, 1)>>, asks |-> <<Level(50000, 1)>>],
      [bids |-> <<Level(699999, 1)>>, asks |-> <<Level(700000, 1)>>],
      [bids |-> <<Level(49900, 1)>>, asks |-> <<Level(50000, 1)>>],
      [bids |-> <<Level(49999, 1)>>, asks |-> <<>>] }

\* Config::imbalance_threshold of the engine (its default), in 1/100; the
\* engine hands it to its signal filter
config_imbalance_threshold == 30

\* what obi_generator_->smoothed_imbalance() returns after the update
EngineImbalances == {-80, 10, 80}

\* what the exchange answers to the orders of one depth update: whether each
\* order is accepted, and how much of the entry it reports as executed; an
\* order that is not sent has no answer (its field is left TRUE, "none")
Answers ==
    { a \in [entry_ok : BOOLEAN, executed : {"none", "half", "full"},
            sl_ok : BOOLEAN, tp_ok : BOOLEAN, close_ok : BOOLEAN] :
        /\ ~a.entry_ok => (a.executed = "none" /\ a.sl_ok /\ a.tp_ok)
        /\ (~a.entry_ok \/ (a.sl_ok /\ a.tp_ok)) => a.close_ok }

\* the answers of a depth update that sends no order
NoAnswer ==
    [entry_ok |-> TRUE, executed |-> "none", sl_ok |-> TRUE, tp_ok |-> TRUE,
     close_ok |-> TRUE]

CeilDiv(a, b) == (a + b - 1) \div b

\* the step of round_quantity_for_obi for a price
quantity_step(price) ==
    IF price >= 10000 THEN 1
    ELSE IF price >= 1000 THEN 10
    ELSE IF price >= 100 THEN 100
    ELSE IF price >= 10 THEN 1000
    ELSE 10000

\* OBITradingEngine::round_quantity_for_obi(usd / price, price)
round_quantity_for_obi(usd, price) ==
    ((usd * 1000) \div (price * quantity_step(price))) * quantity_step(price)

\* OBITradingEngine::round_price: floor(price * 10 + 0.5), in 1/10 dollar
round_price(price) == price.v * 10 + ((2 * price.frac + 1000) \div 2000)

\* a client order id numbered by a counter of one bit
generate_client_order_id_OneBit(counter, suffix) ==
    <<"opus_", (counter % 2) + 1, suffix>>

\* OrderManager::generate_client_order_id: "opus_<n>", with a suffix
generate_client_order_id(counter, suffix) == <<"opus_", counter + 1, suffix>>

\* OrderInfo::status as place_order fills it in: New for an algo order; for
\* a regular order the status the exchange reports with the executed quantity
\* ("none" when place_order returns no OrderInfo)
StatusOf(type, quantity, ok, executed_qty) ==
    IF ~ok THEN "none"
    ELSE IF type # "Market" THEN "New"
    ELSE IF executed_qty = 0 THEN "New"
    ELSE IF executed_qty < quantity THEN "PartiallyFilled"
    ELSE "Filled"

\* a request as client_.place_order received it, and what it answered
Order(type, side, quantity, stop_price, reduce_only, id, ok, executed_qty) ==
    [type |-> type, side |-> side, quantity |-> quantity, stop_price |-> stop_price,
     reduce_only |-> reduce_only, close_position |-> FALSE,
     client_order_id |-> id,
     ok |-> ok, executed_qty |-> executed_qty,
     status |-> StatusOf(type, quantity, ok, executed_qty)]

\* executedQty in the answer to a Market order
Executed(ans, quantity) ==
    IF ans.executed = "none" THEN 0
    ELSE IF ans.executed = "half" THEN quantity \div 2
    ELSE quantity

\* a closing side equal to the entry side
Opposite_Same(side) == side

\* order_manager.cpp 78: the side that closes a position opened on side
Opposite(side) == IF side = "Buy" THEN "Sell" ELSE "Buy"

\* the exchange's position after an accepted Market order
Fill(pos, side, quantity, reduce_only) ==
    IF reduce_only
      THEN IF pos > 0 /\ side = "Sell" THEN (IF quantity < pos THEN pos - quantity ELSE 0)
           ELSE IF pos < 0 /\ side = "Buy" THEN (IF quantity < -pos THEN pos + quantity ELSE 0)
           ELSE pos
      ELSE IF side = "Buy" THEN pos + quantity ELSE pos - quantity

\* the threads that place orders through one OrderManager
Threads == {1, 2}

OrderIdsInit ==
    /\ om_pc = [t \in Threads |-> "idle"]
    /\ om_calls = [t \in Threads |-> 0]
    /\ issued = <<>>

\* one generate_client_order_id call by thread t: ++order_counter_ is a
\* single atomic read-modify-write
GenerateId(t, suffix) ==
    /\ issued' = Append(issued, [thread |-> t,
                                 id |-> generate_client_order_id(order_counter, suffix)])
    /\ order_counter' = order_counter + 1

\* thread t calls place_market_order, alone or as the entry of
\* place_bracket_order; the bracket goes on only if the entry was accepted
T_PlaceEntry(t) ==
    /\ om_pc[t] = "idle"
    /\ om_calls[t] < MaxCalls
    /\ GenerateId(t, "")
    /\ om_calls' = [om_calls EXCEPT ![t] = @ + 1]
    /\ \E bracket \in BOOLEAN, entry_ok \in BOOLEAN :
          om_pc' = [om_pc EXCEPT ![t] = IF bracket /\ entry_ok THEN "stop_loss" ELSE "idle"]

\* thread t builds the stop-loss request of its bracket
T_PlaceStopLoss(t) ==
    /\ om_pc[t] = "stop_loss"
    /\ GenerateId(t, "_SL")
    /\ om_pc' = [om_pc EXCEPT ![t] = "take_profit"]
    /\ UNCHANGED om_calls

\* thread t builds the take-profit request of its bracket
T_PlaceTakeProfit(t) ==
    /\ om_pc[t] = "take_profit"
    /\ GenerateId(t, "_TP")
    /\ om_pc' = [om_pc EXCEPT ![t] = "idle"]
    /\ UNCHANGED om_calls

OrderIdsNext ==
    \E t \in Threads :
        /\ T_PlaceEntry(t) \/ T_PlaceStopLoss(t) \/ T_PlaceTakeProfit(t)
        /\ UNCHANGED <<trading_enabled, trading_disabled_notified, stats, orders,
                       pending_orders, tracker_open, ex_pos, sync_parity, realized,
                       event>>

\* ------------------------------------------------------------------------
\* PositionTracker
\* ------------------------------------------------------------------------

\* what BinanceClient::get_positions can return: per position a symbol, a
\* side (Long for a positive positionAmt, Short for a negative one) and the
\* absolute quantity
PositionInfos ==
    [symbol : Symbols, side : {"Long", "Short"}, quantity : {1, 2}]

PositionLists ==
    UNION {[1..n -> PositionInfos] : n \in 0..MaxPositions}

\* a tracked quantity that drops the sign
SignedQuantity_Unsigned(api_pos) == api_pos.quantity

\* position_tracker.cpp 84-90: the signed quantity of a fetched position
SignedQuantity(api_pos) ==
    IF api_pos.side = "Short" THEN -api_pos.quantity ELSE api_pos.quantity

\* PositionTracker::sync_with_exchange on open_positions_ op, get_positions
\* having answered api
sync_with_exchange(op, api) ==
    [any_closed |->
        \E i \in 1..Len(op) :
            ~\E j \in 1..Len(api) : op[i].symbol = api[j].symbol,
     open_positions_ |->
        [j \in 1..Len(api) |-> [symbol |-> api[j].symbol,
                                quantity |-> SignedQuantity(api[j])]]]

\* PositionTracker::has_open_position
has_open_position(op) == op # <<>>

TrackerInit ==
    /\ open_positions_ = <<>>
    /\ fetched = <<>>
    /\ sync_returned = FALSE
    /\ tracker_op = "PositionTracker"

\* a call sync_with_exchange()
SyncWithExchange ==
    \E api \in PositionLists :
        /\ fetched' = api
        /\ \E r \in {sync_with_exchange(open_positions_, api)} :
              /\ sync_returned' = r.any_closed
              /\ open_positions_' = r.open_positions_
        /\ tracker_op' = "sync_with_exchange"

TrackerNext == SyncWithExchange

\* a depth update in which can_trade and place_bracket_order are not called
NoEvent ==
    [symbol |-> ConfigSymbol, update |-> [bids |-> <<>>, asks |-> <<>>],
     decision |-> "NotCalled", bracket |-> FALSE, price |-> 0,
     side |-> "Buy", quantity |-> 0,
     stop_loss_price |-> 0, take_profit_price |-> 0,
     entry_order |-> FALSE, stop_loss_order |-> FALSE, take_profit_order |-> FALSE,
     filtered |-> FALSE]

\* a bracket that goes on to its stop-loss and take-profit after a failed entry
place_bracket_order_NoEarlyReturn(om, side, quantity, stop_loss_price, take_profit_price, ans) ==
    LET entry == Order("Market", side, quantity, 0, FALSE,
                       generate_client_order_id(om.order_counter, ""),
                       ans.entry_ok, IF ans.entry_ok THEN Executed(ans, quantity) ELSE 0)
        sl == Order("StopMarket", Opposite(side), quantity, stop_loss_price, TRUE,
                    generate_client_order_id(om.order_counter + 1, "_SL"),
                    ans.sl_ok, 0)
        tp == Order("TakeProfitMarket", Opposite(side), quantity, take_profit_price, TRUE,
                    generate_client_order_id(om.order_counter + 2, "_TP"),
                    ans.tp_ok, 0)
        n == Len(om.orders)
    IN  [om |-> [om EXCEPT
                   !.orders = @ \o <<entry, sl, tp>>,
                   !.order_counter = @ + 3,
                   !.pending_orders = @ \cup (IF ans.entry_ok THEN {n + 1} ELSE {})
                                        \cup (IF ans.sl_ok THEN {n + 2} ELSE {})
                                        \cup (IF ans.tp_ok THEN {n + 3} ELSE {}),
                   !.ex_pos = IF ans.entry_ok THEN Fill(@, side, quantity, FALSE) ELSE @],
         entry_order |-> ans.entry_ok, executed_qty |-> entry.executed_qty,
         stop_loss_order |-> ans.sl_ok, take_profit_order |-> ans.tp_ok]

\* OrderManager::place_bracket_order on the manager state
\* om = [orders, order_counter, pending_orders, ex_pos]
place_bracket_order(om, side, quantity, stop_loss_price, take_profit_price, ans) ==
    LET entry == Order("Market", side, quantity, 0, FALSE,
                       generate_client_order_id(om.order_counter, ""),
                       ans.entry_ok, IF ans.entry_ok THEN Executed(ans, quantity) ELSE 0)
        close_side == Opposite(side)
        sl == Order("StopMarket", close_side, quantity, stop_loss_price, TRUE,
                    generate_client_order_id(om.order_counter + 1, "_SL"),
                    ans.sl_ok, 0)
        tp == Order("TakeProfitMarket", close_side, quantity, take_profit_price, TRUE,
                    generate_client_order_id(om.order_counter + 2, "_TP"),
                    ans.tp_ok, 0)
        n == Len(om.orders)
    IN  IF ~ans.entry_ok
          THEN [om |-> [om EXCEPT !.orders = Append(@, entry),
                                  !.order_counter = @ + 1],
                entry_order |-> FALSE, executed_qty |-> 0,
                stop_loss_order |-> FALSE, take_profit_order |-> FALSE]
          ELSE [om |-> [om EXCEPT
                          !.orders = @ \o <<entry, sl, tp>>,
                          !.order_counter = @ + 3,
                          !.pending_orders = @ \cup {n + 1}
                                               \cup (IF ans.sl_ok THEN {n + 2} ELSE {})
                                               \cup (IF ans.tp_ok THEN {n + 3} ELSE {}),
                          !.ex_pos = Fill(@, side, quantity, FALSE)],
                entry_order |-> TRUE, executed_qty |-> entry.executed_qty,
                stop_loss_order |-> ans.sl_ok, take_profit_order |-> ans.tp_ok]

\* OrderManager::place_reduce_only_market_order: a Market order flagged
\* reduce-only, under a fresh client order id
place_reduce_only_market_order(om, side, quantity, ans) ==
    LET close == Order("Market", side, quantity, 0, TRUE,
                       generate_client_order_id(om.order_counter, ""),
                       ans.close_ok, IF ans.close_ok THEN quantity ELSE 0)
    IN  [om EXCEPT !.orders = Append(@, close),
                   !.order_counter = @ + 1,
                   !.pending_orders = IF ans.close_ok THEN @ \cup {Len(om.orders) + 1} ELSE @,
                   !.ex_pos = IF ans.close_ok THEN Fill(@, side, quantity, TRUE) ELSE @]

\* an emergency close for the quantity requested, whatever was executed
EmergencyCloseQty_Requested(executed_qty, rounded_qty) == rounded_qty

\* main.cpp 945-947: the quantity of the emergency close
EmergencyCloseQty(executed_qty, rounded_qty) ==
    IF executed_qty > 0 THEN executed_qty ELSE rounded_qty

\* a test that lets a cooldown rejection through as an approval
IsApproved_OrCooldown(decision) ==
    decision.decision \in {"Approved", "RejectedCooldown"}

\* main.cpp 876: decision.decision == TradeDecision::Approved
IsApproved(decision) == decision.decision = "Approved"

watch_only_Never(enabled) == FALSE

\* main.cpp 855: if (!config_.trading_enabled), the watch-only mode
watch_only(enabled) == ~enabled

\* main.cpp 855-924: the qualified signal reaches place_bracket_order
Placing(r, type, price, t) ==
    /\ ~watch_only(trading_enabled)
    /\ price > 0
    /\ LET decision == can_trade(r, risk_cfg, price, type = "Buy", t)
           floor_qty == round_quantity_for_obi(decision.position_size_usd.v, price)
       IN  /\ IsApproved(decision)
           /\ floor_qty * price <= 600000
           /\ (floor_qty * price < 100000 \/ floor_qty > 0)

\* handle_depth_update from the qualified signal on (main.cpp 847-971), on
\* e = [risk, om, stats, notified, event]; price is the best ask (Buy) or
\* best bid
ExecuteSignal(e, type, price, ans, t) ==
    LET is_long == type = "Buy"
        e1 == IF is_long THEN [e EXCEPT !.stats.qualified_buys = @ + 1]
                         ELSE [e EXCEPT !.stats.qualified_sells = @ + 1]
        rejected == [e1 EXCEPT !.stats.rejected_trades = @ + 1]
        decision == can_trade(e.risk, risk_cfg, price, is_long, t)
        e2 == [e1 EXCEPT !.stats.approved_trades = @ + 1,
                         !.event.decision = decision.decision]
        sl_price == round_price(decision.stop_loss_price)
        tp_price == round_price(decision.take_profit_price)
        floor_qty == round_quantity_for_obi(decision.position_size_usd.v, price)
        rounded_qty ==
            IF floor_qty * price < 100000
              THEN CeilDiv(100000, price * quantity_step(price)) * quantity_step(price)
              ELSE floor_qty
        side == IF is_long THEN "Buy" ELSE "Sell"
        result == place_bracket_order(e.om, side, rounded_qty, sl_price, tp_price, ans)
        e3 == [e2 EXCEPT !.om = result.om,
                         !.event = [symbol |-> ConfigSymbol, update |-> NoEvent.update,
                                    decision |-> decision.decision, bracket |-> TRUE,
                                    price |-> price,
                                    side |-> side, quantity |-> rounded_qty,
                                    stop_loss_price |-> sl_price,
                                    take_profit_price |-> tp_price,
                                    entry_order |-> result.entry_order,
                                    stop_loss_order |-> result.stop_loss_order,
                                    take_profit_order |-> result.take_profit_order,
                                    filtered |-> TRUE]]
        placed == [e3 EXCEPT !.risk = on_order_placed(e.risk, t)]
    IN  IF watch_only(trading_enabled) THEN [rejected EXCEPT !.notified = TRUE]
        ELSE IF price <= 0 THEN e1
        ELSE IF ~IsApproved(decision)
          THEN [rejected EXCEPT !.event.decision = decision.decision]
        ELSE IF floor_qty * price > 600000 THEN e2
        ELSE IF rounded_qty <= 0 THEN [e2 EXCEPT !.stats.rejected_trades = @ + 1]
        ELSE IF ~result.entry_order THEN e3
        ELSE IF ~result.stop_loss_order \/ ~result.take_profit_order
          THEN [placed EXCEPT !.om =
                   place_reduce_only_market_order(
                       result.om, Opposite(side),
                       EmergencyCloseQty(result.executed_qty, rounded_qty), ans)]
        ELSE placed

\* spread_pct of handle_depth_update in 1/100 percent, rounded up (the
\* filter only tests it against a whole number of 1/100 percent)
spread_pct(bs, as) ==
    IF Len(bs) > 0 /\ Len(as) > 0 /\ bs[1].price > 0
      THEN CeilDiv((as[1].price - bs[1].price) * 10000, bs[1].price)
      ELSE 0

EngineInit ==
    /\ trading_disabled_notified = FALSE
    /\ stats = [total_updates |-> 0, buy_signals |-> 0, sell_signals |-> 0,
                qualified_buys |-> 0, qualified_sells |-> 0,
                approved_trades |-> 0, rejected_trades |-> 0]
    /\ orders = <<>>
    /\ order_counter = 0
    /\ pending_orders = {}
    /\ tracker_open = FALSE
    /\ ex_pos = 0
    /\ sync_parity = 0
    /\ realized = [last_realized_pnl_ |-> 0, closed_sum |-> 0]
    /\ event = NoEvent
    /\ OrderIdsInit
    /\ TrackerInit
    /\ BusInit
    /\ ProcInit
    /\ PushInit
    /\ MpscInit

\* a depth update for any symbol is handled as one for the primary symbol
IsPrimarySymbol_Any(symbol) == TRUE

\* the symbol check of handle_depth_update
IsPrimarySymbol(symbol) == symbol = ConfigSymbol

\* handle_depth_update(update): the update is for symbol and carries snap;
\* ready and imbalance are what the imbalance generator answers after it
DepthEvent(symbol, snap, ready, imbalance) ==
    /\ IF ~IsPrimarySymbol(symbol)
         THEN /\ event' = [NoEvent EXCEPT !.symbol = symbol]
              /\ UNCHANGED <<bookVars, filterVars, riskVars, trading_enabled,
                             trading_disabled_notified, stats, orders, order_counter,
                             pending_orders, tracker_open, ex_pos, sync_parity,
                             realized>>
         ELSE
           LET bs == ApplyBids(clear(bids), snap.bids)
               as == ApplyAsks(clear(asks), snap.asks)
               stats1 == [stats EXCEPT !.total_updates = @ + 1]
               stats2 == IF Abs(imbalance) > config_imbalance_threshold
                           THEN IF imbalance > 0
                                  THEN [stats1 EXCEPT !.buy_signals = @ + 1]
                                  ELSE [stats1 EXCEPT !.sell_signals = @ + 1]
                           ELSE stats1
               filtered == filter(filt, config_imbalance_threshold, imbalance,
                                  spread_pct(bs, as), now)
               price == IF filtered.type = "Buy"
                          THEN (IF Len(as) > 0 THEN as[1].price ELSE 0)
                          ELSE (IF Len(bs) > 0 THEN bs[1].price ELSE 0)
               e == [risk |-> risk,
                     om |-> [orders |-> orders, order_counter |-> order_counter,
                             pending_orders |-> pending_orders, ex_pos |-> ex_pos],
                     stats |-> stats2, notified |-> trading_disabled_notified,
                     event |-> NoEvent]
               placing == ready /\ filtered.type # "None"
                            /\ Placing(risk, filtered.type, price, now)
               out(ans) == IF ~ready THEN [e EXCEPT !.stats = stats1]
                           ELSE IF filtered.type = "None" THEN e
                           ELSE ExecuteSignal(e, filtered.type, price, ans, now)
           IN  \E ans \in (IF placing THEN Answers ELSE {NoAnswer}) :
               \E o \in {out(ans)} :
               /\ bids' = bs
               /\ asks' = as
               /\ last_update_time' = IF Len(snap.bids) + Len(snap.asks) > 0
                                        THEN now ELSE last_update_time
               /\ last_update_id' = 0
               /\ book_op' = "depth_update"
               /\ feed_bids' = ApplyFeed({}, snap.bids)
               /\ feed_asks' = ApplyFeed({}, snap.asks)
               /\ filt' = IF ready THEN filtered.f ELSE filt
               /\ f_signal' = IF ready THEN filtered.type ELSE f_signal
               /\ IF ready THEN EmitRecorded(filtered.type, now)
                              ELSE UNCHANGED <<emit_time, emit_gap>>
               /\ UNCHANGED streak
               /\ risk' = o.risk
               /\ risk_op' = "depth_update"
               /\ stats' = o.stats
               /\ orders' = o.om.orders
               /\ order_counter' = o.om.order_counter
               /\ pending_orders' = o.om.pending_orders
               /\ ex_pos' = o.om.ex_pos
               /\ trading_disabled_notified' = o.notified
               /\ event' = [o.event EXCEPT !.symbol = symbol, !.update = snap,
                                          !.filtered = ready]
               /\ UNCHANGED <<cfg_in, risk_cfg, risk_result, pnl_sum, trading_enabled,
                              tracker_open, sync_parity, realized>>

\* the sums of trade.realized_pnl over the account trades of the last 30 s
\* that get_account_trades may answer (position_tracker.cpp 42-66); 0 is
\* also the value after a failed request (72)
RealizedPnls == {-50, 0}

\* the profit and loss the engine hands to on_position_closed (main.cpp 760:
\* risk_manager_->on_position_closed(0.0))
SyncPnl(last_realized_pnl_) == 0

\* on_timer_event(POSITION_SYNC) with PositionTracker::sync_with_exchange;
\* api_ok: get_positions got an answer (it returns no position when not);
\* total_pnl: the realized PnL summed over the recent account trades
PositionSync(api_ok, total_pnl) ==
    LET api_positions == IF api_ok /\ ex_pos # 0 THEN {ConfigSymbol} ELSE {}
        open_positions == IF tracker_open THEN {ConfigSymbol} ELSE {}
        any_closed == \E old_pos \in open_positions : old_pos \notin api_positions
    IN  /\ sync_parity' = 1 - sync_parity
        /\ IF risk.open_positions > 0 \/ tracker_open
             THEN /\ tracker_open' = (api_positions # {})
                  /\ realized' =
                        IF any_closed
                          THEN [last_realized_pnl_ |-> total_pnl,
                                closed_sum |-> realized.closed_sum + total_pnl]
                          ELSE realized
                  /\ risk' = IF any_closed
                               THEN on_position_closed(risk, SyncPnl(total_pnl))
                               ELSE risk
                  /\ risk_op' = IF any_closed THEN "on_position_closed" ELSE risk_op
             ELSE UNCHANGED <<tracker_open, realized, risk, risk_op>>
        /\ UNCHANGED <<cfg_in, risk_cfg, risk_result, pnl_sum, trading_enabled,
                       trading_disabled_notified, stats, orders, order_counter,
                       pending_orders, ex_pos, event>>

\* the exchange closes the position (a stop or take-profit order triggers,
\* or the position is closed by hand)
ExchangeClosesPosition ==
    /\ ex_pos # 0
    /\ ex_pos' = 0
    /\ UNCHANGED <<trading_enabled, trading_disabled_notified, stats, orders,
                   order_counter, pending_orders, tracker_open, sync_parity,
                   realized, event>>

\* the clock advances by fifteen seconds
EngineClock ==
    /\ now + 15 <= EngineMaxTime
    /\ now' = now + 15

\* a POSITION_SYNC timer event is handled
PositionSyncTimerOf(pnls) ==
    \E api_ok \in BOOLEAN, total_pnl \in pnls :
        PositionSync(api_ok, total_pnl)
            /\ UNCHANGED <<ringVars, now, bookVars, filterVars, idVars, trackerVars,
                           busVars, stopVars, laterVars>>

\* a POSITION_SYNC timer event whose recent account trades sum to nothing;
\* nothing in the engine reads last_realized_pnl_, so no other variable
\* depends on that sum
PositionSyncTimer == PositionSyncTimerOf({0})

EngineNext ==
    \/ \E symbol \in Symbols, snap \in Snapshots :
       \E ready \in (IF IsPrimarySymbol(symbol) THEN BOOLEAN ELSE {FALSE}),
          imbalance \in (IF IsPrimarySymbol(symbol) THEN EngineImbalances ELSE {0}) :
          /\ IsPrimarySymbol(symbol) => stats.total_updates < MaxUpdates
          /\ DepthEvent(symbol, snap, ready, imbalance)
          /\ UNCHANGED <<now, idVars, trackerVars, busVars, stopVars, laterVars>>
    \/ PositionSyncTimer
    \/ ExchangeClosesPosition
          /\ UNCHANGED <<now, bookVars, filterVars, riskVars, idVars, trackerVars,
                         busVars, stopVars, laterVars>>
    \/ EngineClock
          /\ UNCHANGED <<bookVars, filterVars, riskVars, engineVars, idVars, trackerVars,
                         busVars, stopVars, laterVars>>

\* an imbalance in 1/100, truncated towards zero: the tests of the filter
\* against its thresholds, whole numbers of 1/100, come out as on the fraction
Hundredths(a) ==
    IF a.n >= 0 THEN (a.n * 100) \div a.d ELSE -((-a.n * 100) \div a.d)

\* the quantities of the first n levels of a side: order_book_.bids(n)
TopQuantities(side, n) ==
    [i \in 1..(IF n < Len(side) THEN n ELSE Len(side)) |-> side[i].quantity]

\* depth updates with more bids than asks, more asks than bids, and as many
GeneratorSnapshots ==
    { [bids |-> <<Level(49999, 9)>>, asks |-> <<Level(50000, 1)>>],
      [bids |-> <<Level(49999, 1)>>, asks |-> <<Level(50000, 9)>>],
      [bids |-> <<Level(49999, 1)>>, asks |-> <<Level(50000, 1)>>] }

\* handle_depth_update with the engine's imbalance generator: the generator
\* is updated with the rebuilt book, then asked is_ready() and
\* smoothed_imbalance()
GeneratorDepthEvent(symbol, snap) ==
    IF ~IsPrimarySymbol(symbol)
      THEN DepthEvent(symbol, snap, FALSE, 0) /\ UNCHANGED obiVars
      ELSE LET bs == ApplyBids(clear(bids), snap.bids)
               as == ApplyAsks(clear(asks), snap.asks)
               bid_levels == TopQuantities(bs, obi_config.depth_levels)
               ask_levels == TopQuantities(as, obi_config.depth_levels)
               g == update(obi, obi_config, bid_levels, ask_levels)
           IN  /\ ObiUpdate(bid_levels, ask_levels)
               /\ DepthEvent(symbol, snap, is_ready(g, obi_config),
                             Hundredths(g.smoothed_imbalance))

\* the depth updates the engine handles with its imbalance generator, as
\* the clock advances
GeneratorNext ==
    \/ /\ \E symbol \in Symbols, snap \in GeneratorSnapshots :
             GeneratorDepthEvent(symbol, snap)
       /\ UNCHANGED now
    \/ EngineClock
          /\ UNCHANGED <<bookVars, filterVars, riskVars, engineVars, obiVars>>

\* depth updates with unsorted levels, a price given twice, a level removed
\* again, a side left empty
RebuildSnapshots ==
    Snapshots \cup
    { [bids |-> <<Level(49990, 1), Level(49999, 1), Level(49990, 2)>>,
       asks |-> <<Level(50001, 1), Level(50000, 1), Level(50001, 0)>>],
      [bids |-> <<Level(49998, 2), Level(49997, 1)>>,
       asks |-> <<Level(50002, 1), Level(50003, 1)>>],
      [bids |-> <<Level(49999, 0)>>, asks |-> <<>>],
      [bids |-> <<>>, asks |-> <<Level(50000, 2), Level(50000, 0), Level(50000, 1)>>] }

\* the engine while its imbalance generator is not ready, and a caller that
\* loads snapshots into the book and stamps it with update ids that do not
\* decrease
SnapshotNext ==
    \/ /\ \E snap \in RebuildSnapshots :
            /\ stats.total_updates < MaxRebuilds
            /\ DepthEvent(ConfigSymbol, snap, FALSE, 0)
       /\ UNCHANGED now
    \/ /\ \E snap \in Snapshots, id \in last_update_id..MaxUpdateId :
            BookInitialize(snap.bids, snap.asks, id)
       /\ UNCHANGED <<now, filterVars, riskVars, engineVars>>
    \/ /\ \E snap \in Snapshots : UpdateBatch(snap.bids, snap.asks)
       /\ UNCHANGED <<now, filterVars, riskVars, engineVars>>
    \/ BookClear /\ UNCHANGED <<now, filterVars, riskVars, engineVars>>
    \/ /\ \E id \in last_update_id..MaxUpdateId : SetLastUpdateId(id)
       /\ UNCHANGED <<now, filterVars, riskVars, engineVars>>
    \/ EngineClock /\ UNCHANGED <<bookVars, filterVars, riskVars, engineVars>>

\* the components as constructed; the engine builds its risk manager from
\* EngineRiskConfig
Init ==
    /\ RingInit /\ now = 0 /\ BookInit /\ FilterInit
    /\ RiskConstructed(EngineRiskConfig)
    /\ trading_enabled = TRUE
    /\ EngineInit
    /\ ObiInit

\* the engine with a generator of the default depth_levels and any
\* smoothing_period
InitGenerator ==
    /\ RingInit /\ now = 0 /\ BookInit /\ FilterInit
    /\ RiskConstructed(EngineRiskConfig)
    /\ trading_enabled = TRUE
    /\ EngineInit
    /\ \E smoothing_period \in 0..MaxSmoothing :
          ObiConstructed([depth_levels |-> 10, smoothing_period |-> smoothing_period])

\* the risk manager constructed from any of the configurations
InitRisk ==
    /\ RingInit /\ now = 0 /\ BookInit /\ FilterInit
    /\ \E config \in RiskConfigs : RiskConstructed(config)
    /\ trading_enabled = TRUE
    /\ EngineInit
    /\ ObiInit

\* the trades of the day the engine has opened, and seen closed, before the
\* events that are followed
TradesSoFar == {MAX_DAILY_TRADES - 1, MAX_DAILY_TRADES}

\* the engine late in a day: no position is open, daily_trades_ counts the
\* trades so far, whose orders are left out of the order log
InitTrades ==
    /\ RingInit /\ now = 0 /\ BookInit /\ FilterInit
    /\ cfg_in = EngineRiskConfig
    /\ risk_cfg = apply_hardcoded_limits(EngineRiskConfig)
    /\ \E n \in TradesSoFar :
          risk = [open_positions |-> 0, daily_trades |-> n, daily_pnl |-> 0,
                  last_order_time |-> 0]
    /\ risk_op = "RiskManager"
    /\ risk_result = "none"
    /\ pnl_sum = 0
    /\ trading_enabled = TRUE
    /\ EngineInit
    /\ ObiInit

\* the engine as constructed from a configuration file
InitEngine ==
    /\ RingInit /\ now = 0 /\ BookInit /\ FilterInit
    /\ RiskConstructed(EngineRiskConfig)
    /\ trading_enabled \in BOOLEAN
    /\ EngineInit
    /\ ObiInit

\* the imbalance generator constructed from any of the configurations
InitObi ==
    /\ RingInit /\ now = 0 /\ BookInit /\ FilterInit
    /\ RiskConstructed(EngineRiskConfig)
    /\ trading_enabled = TRUE
    /\ EngineInit
    /\ \E config \in ObiConfigs : ObiConstructed(config)

SpecRing == Init /\ [][RingNext /\ UNCHANGED <<now, bookVars, filterVars, riskVars, engineVars, idVars, trackerVars, busVars, stopVars, laterVars>>]_vars

SpecBook == Init /\ [][BookNext /\ UNCHANGED <<ringVars, now, filterVars, riskVars, engineVars, idVars, trackerVars, busVars, stopVars, laterVars>>]_vars

SpecFilter == Init /\ [][FilterNext /\ UNCHANGED <<ringVars, bookVars, riskVars, engineVars, idVars, trackerVars, busVars, stopVars, laterVars>>]_vars

SpecRisk ==
    InitRisk /\ [][RiskNext /\ UNCHANGED <<ringVars, bookVars, filterVars, engineVars, idVars, trackerVars, busVars, stopVars, laterVars>>]_vars

SpecOrderIds ==
    Init /\ [][OrderIdsNext
                 /\ UNCHANGED <<ringVars, now, bookVars, filterVars, riskVars,
                                trackerVars, busVars, stopVars, laterVars>>]_vars

SpecTracker ==
    Init /\ [][TrackerNext
                 /\ UNCHANGED <<ringVars, now, bookVars, filterVars, riskVars,
                                engineVars, idVars, busVars, stopVars, laterVars>>]_vars

\* the live engine: network thread, event loop and shutdown
SpecLive ==
    Init /\ [][LiveNext
                 /\ UNCHANGED <<now, bookVars, filterVars, riskVars, engineVars,
                                idVars, trackerVars, laterVars>>]_vars

\* the live process; the main thread keeps running while it has a step
SpecProcess == Init /\ [][ProcNext]_vars /\ WF_vars(MainThread)

SpecSnapshot ==
    Init /\ [][SnapshotNext /\ UNCHANGED <<ringVars, idVars, trackerVars, busVars, stopVars, laterVars>>]_vars

\* both threads keep running
SpecPush == Init /\ [][PushNext]_vars /\ WF_vars(PushProducer) /\ WF_vars(PushConsumer)

\* the engine constructed with any smoothing_period
SpecGenerator ==
    InitGenerator /\ [][GeneratorNext /\ UNCHANGED <<ringVars, idVars, trackerVars, busVars, stopVars, procVars, pushVars, mpscVars>>]_vars

SpecMpsc ==
    Init /\ [][MpscNext /\ UNCHANGED <<ringVars, now, bookVars, filterVars, riskVars, engineVars, idVars, trackerVars, busVars, stopVars, procVars, obiVars, pushVars>>]_vars

SpecObi ==
    InitObi /\ [][ObiNext /\ UNCHANGED <<ringVars, now, bookVars, filterVars, riskVars, engineVars, idVars, trackerVars, busVars, stopVars, procVars, pushVars, mpscVars>>]_vars

SpecTrades == InitTrades /\ [][EngineNext /\ UNCHANGED ringVars]_vars

\* the engine with account trades that realize a loss
RealizedNext == EngineNext \/ PositionSyncTimerOf(RealizedPnls)

SpecRealized == InitEngine /\ [][RealizedNext /\ UNCHANGED ringVars]_vars

\* the POSITION_SYNC timer is periodic: its handler keeps running
SpecEngine ==
    /\ InitEngine
    /\ [][EngineNext /\ UNCHANGED ringVars]_vars
    /\ WF_vars(PositionSyncTimer)

\* ------------------------------------------------------------------------
\* C1: the values returned by successful try_pop calls are, in order, a
\* prefix of the values accepted by successful try_push calls (no
\* duplicate, no lost, no invented, no reordered element), under every
\* interleaving of the producer's and the consumer's steps.
\* ------------------------------------------------------------------------
C1_PoppedIsPrefixOfAccepted ==
    /\ Len(popped) <= Len(accepted)
    /\ \A i \in 1..Len(popped) : popped[i] = accepted[i]

\* elements were popped after the indices wrapped around, while the producer
\* was in the middle of a push
C1_Witness ==
    /\ Len(popped) > Capacity
    /\ p_pc = "publish"
    /\ c_pc = "idle"

\* ------------------------------------------------------------------------
\* C2: the ring never holds more than Capacity-1 elements; try_push
\* succeeds iff (head+1) mod Capacity /= tail when it tests; with
\* Capacity-1 elements held full() is true and capacity() is Capacity-1; a
\* try_push that returns false leaves head, tail and every slot unchanged.
\* ------------------------------------------------------------------------
Held == Len(accepted) - Len(popped)

C2_AtMostCapacityMinusOne ==
    /\ [](/\ Held <= Capacity - 1
          /\ Held = size
          /\ (Held = Capacity - 1) <=> full
          /\ capacity = Capacity - 1)
    /\ [][p_pc = "check" /\ p_pc' # "check" =>
            /\ (p_pc' = "write") <=> (AndMask(head + 1) # tail)
            /\ (p_pc' = "idle") <=> (p_ret' = "false" /\ AndMask(head + 1) = tail)
            /\ (p_pc' = "idle") => UNCHANGED <<head, tail, buffer>>]_vars
    /\ [][p_pc = "publish" /\ p_pc' = "idle" => p_ret' = "true"]_vars

\* a try_push has just returned false on a ring holding Capacity-1 elements
C2_Witness ==
    /\ p_pc = "idle" /\ p_ret = "false"
    /\ Held = Capacity - 1
    /\ full

\* ------------------------------------------------------------------------
\* C7: after any sequence of update_bid / update_ask / update_batch calls
\* on a book that starts empty, the bids are strictly descending and the
\* asks strictly ascending by price (so no price appears twice on a side).
\* ------------------------------------------------------------------------
C7_StrictlySorted ==
    /\ \A i \in 1..(Len(bids) - 1) : bids[i].price > bids[i + 1].price
    /\ \A i \in 1..(Len(asks) - 1) : asks[i].price < asks[i + 1].price

\* both sides are full after a batch
C7_Witness ==
    /\ Len(bids) = MAX_LEVELS
    /\ Len(asks) = MAX_LEVELS
    /\ book_op = "update_batch"

\* ------------------------------------------------------------------------
\* C8 (as claimed): after each update, if both sides are non-empty then
\* best_bid.price < best_ask.price, for every sequence of updates.
\* ------------------------------------------------------------------------
best_bid == bids[1]
best_ask == asks[1]

C8_NeverCrossed ==
    (Len(bids) > 0 /\ Len(asks) > 0) => best_bid.price < best_ask.price

\* C8 (amended): after each update, if both sides are non-empty and the
\* levels the caller has set and not removed are uncrossed (every such bid
\* price is below every such ask price), then best_bid.price <
\* best_ask.price.
FeedUncrossed == \A b \in feed_bids, a \in feed_asks : b < a

C8_UncrossedFeedNeverCrossed ==
    (Len(bids) > 0 /\ Len(asks) > 0 /\ FeedUncrossed)
        => best_bid.price < best_ask.price

\* a full bid side below an ask, from an uncrossed feed
C8_Witness ==
    /\ Len(bids) = MAX_LEVELS /\ Len(asks) > 0
    /\ FeedUncrossed
    /\ Cardinality(feed_bids) = MAX_LEVELS
    /\ book_op = "update_ask"

\* ------------------------------------------------------------------------
\* C9: update_bid(p, q) (and update_ask) on a side below capacity: with
\* q = 0 the level priced p is removed if present (count - 1), nothing else
\* changes, and removing an absent price changes nothing; with q /= 0 the
\* side then holds exactly one level priced p, with quantity q, and every
\* other level keeps its price, quantity and relative order; the opposite
\* side is unchanged.
\* ------------------------------------------------------------------------
Others(side, p) == SelectSeq(side, LAMBDA lv : lv.price # p)
Present(side, p) == \E i \in 1..Len(side) : side[i].price = p

UpdatePost(before, after, p, q) ==
    IF q = 0
      THEN /\ after = Others(before, p)
           /\ Len(after) = Len(before) - (IF Present(before, p) THEN 1 ELSE 0)
           /\ ~Present(before, p) => after = before
      ELSE /\ Cardinality({i \in 1..Len(after) : after[i].price = p}) = 1
           /\ \A i \in 1..Len(after) : after[i].price = p => after[i].quantity = q
           /\ Others(after, p) = Others(before, p)

C5_SameDirectionCooldown ==
    \A d \in {"Buy", "Sell"} : emit_gap[d] = -1 \/ emit_gap[d] >= cooldown_seconds

\* two Buy signals exactly cooldown_seconds apart with a Sell signal between
C5_Witness ==
    /\ f_signal = "Buy"
    /\ emit_gap["Buy"] = cooldown_seconds
    /\ emit_time["Buy"] = now
    /\ emit_time["Sell"] > now - cooldown_seconds
    /\ emit_time["Sell"] < now

\* ------------------------------------------------------------------------
\* C6: for every RiskConfig passed to the constructor, the effective
\* configuration has stop_loss_pct >= 0.20, max_position_usd <= 500 and
\* min_order_interval_ms >= 10000, in the constructed state and in every
\* later one.
\* ------------------------------------------------------------------------
C6_HardcodedLimitsHold ==
    /\ DGreaterEq(risk_cfg.stop_loss_pct, D(MIN_STOP_LOSS_PCT))
    /\ DLessEq(risk_cfg.max_position_usd, D(MAX_POSITION_USD))
    /\ risk_cfg.min_order_interval_ms >= MIN_ORDER_INTERVAL_MS

\* ------------------------------------------------------------------------
\* C10: can_trade returns the rejection of the first gate that fails, in
\* the order daily loss, daily trade count, open-position limit, order
\* cooldown, and Approved iff none fails; can_trade leaves open_positions,
\* daily_trades, daily_pnl and last_order_time unchanged.  (A step that
\* ends with risk_op = "can_trade" at an unchanged clock is a can_trade call.)
\* ------------------------------------------------------------------------
GateDailyLoss == risk.daily_pnl <= -risk_cfg.max_daily_loss_usd
GateMaxTrades == risk.daily_trades >= 20
GatePositionLimit == risk.open_positions >= risk_cfg.max_open_positions
GateCooldown == (now - risk.last_order_time) * 1000 < risk_cfg.min_order_interval_ms

C10_GatesInPriorityOrder ==
    /\ [][(risk_op' = "can_trade" /\ now' = now) =>
            /\ (risk_result' = "RejectedDailyLoss") <=> GateDailyLoss
            /\ (risk_result' = "RejectedMaxTrades") <=> (~GateDailyLoss /\ GateMaxTrades)
            /\ (risk_result' = "RejectedPositionLimit") <=>
                   (~GateDailyLoss /\ ~GateMaxTrades /\ GatePositionLimit)
            /\ (risk_result' = "RejectedCooldown") <=>
                   (~GateDailyLoss /\ ~GateMaxTrades /\ ~GatePositionLimit /\ GateCooldown)
            /\ (risk_result' = "Approved") <=>
                   ~(GateDailyLoss \/ GateMaxTrades \/ GatePositionLimit \/ GateCooldown)
            /\ risk' = risk]_vars

\* can_trade has answered RejectedMaxTrades while the position limit and the
\* cooldown fail too
C10_Witness ==
    /\ risk_op = "can_trade"
    /\ risk_result = "RejectedMaxTrades"
    /\ GatePositionLimit
    /\ GateCooldown

\* ------------------------------------------------------------------------
\* C3 (as claimed): whenever place_bracket_order returns with the entry
\* present and the stop-loss or the take-profit order absent, the very next
\* order submitted is a reduce-only Market order on the opposite side with
\* quantity equal to entry.executed_qty, and no new entry comes before it.
\* ------------------------------------------------------------------------
IsEntry(o) == o.type = "Market" /\ ~o.reduce_only

\* orders[i] is an accepted entry whose stop-loss or take-profit was refused
UnprotectedEntry(i) ==
    /\ IsEntry(orders[i]) /\ orders[i].ok
    /\ orders[i + 1].type = "StopMarket"
    /\ orders[i + 2].type = "TakeProfitMarket"
    /\ (~orders[i + 1].ok \/ ~orders[i + 2].ok)

\* the order after the bracket of orders[i] is a reduce-only Market order on
\* the opposite side, for quantity
ClosedNext(i, quantity) ==
    /\ Len(orders) >= i + 3
    /\ orders[i + 3].type = "Market"
    /\ orders[i + 3].reduce_only
    /\ orders[i + 3].side = Opposite(orders[i].side)
    /\ orders[i + 3].quantity = quantity

C3_CloseForExecutedQty ==
    \A i \in 1..Len(orders) :
        UnprotectedEntry(i) => ClosedNext(i, orders[i].executed_qty)

\* ------------------------------------------------------------------------
\* C3 (amended): ... the very next order submitted is a reduce-only Market
\* order on the opposite side whose quantity is entry.executed_qty when that
\* is positive and the quantity of the entry order otherwise; no new entry
\* comes before it.
\* ------------------------------------------------------------------------
C3_CloseForExecutedOrRequestedQty ==
    \A i \in 1..Len(orders) :
        UnprotectedEntry(i) =>
            ClosedNext(i, IF orders[i].executed_qty > 0
                            THEN orders[i].executed_qty ELSE orders[i].quantity)

\* an entry reported as partly executed lost its take-profit order and was
\* closed
C3_Witness ==
    \E i \in 1..Len(orders) :
        /\ UnprotectedEntry(i)
        /\ orders[i + 1].ok
        /\ orders[i].executed_qty > 0
        /\ orders[i].executed_qty < orders[i].quantity
        /\ Len(orders) = i + 3
        /\ orders[i + 3].ok

\* ------------------------------------------------------------------------
\* C4: if the risk manager counts an open position while the exchange
\* reports none, then, with POSITION_SYNC events firing repeatedly,
\* on_position_closed is eventually called and open_positions returns to 0,
\* whether or not the position tracker ever observed the position.
\* ------------------------------------------------------------------------
C4_OpenPositionsReconciled ==
    (risk.open_positions > 0 /\ ex_pos = 0) ~> (risk.open_positions = 0)

\* ------------------------------------------------------------------------
\* C11 (as claimed): once the sum of the pnl passed to on_position_closed
\* since the last reset is <= -max_daily_loss_usd, every can_trade returns
\* RejectedDailyLoss until reset_daily_stats is called; after
\* reset_daily_stats the daily-loss and daily-trade gates no longer reject.
\* ------------------------------------------------------------------------
LossLimitRejects ==
    [][(risk_op' = "can_trade" /\ now' = now
            /\ pnl_sum <= -risk_cfg.max_daily_loss_usd)
         => risk_result' = "RejectedDailyLoss"]_vars

AfterResetGatesOpen ==
    risk_op = "reset_daily_stats" =>
        can_trade_decision(risk, risk_cfg, now)
            \notin {"RejectedDailyLoss", "RejectedMaxTrades"}

C11_DailyLossLatch == LossLimitRejects /\ []AfterResetGatesOpen

\* ------------------------------------------------------------------------
\* C11 (amended): ... after reset_daily_stats the daily-trade gate no
\* longer rejects, and the daily-loss gate no longer rejects provided
\* max_daily_loss_usd > 0.
\* ------------------------------------------------------------------------
C11_DailyLossLatchPositiveLimit ==
    /\ LossLimitRejects
    /\ [](risk_op = "reset_daily_stats" =>
            /\ can_trade_decision(risk, risk_cfg, now) # "RejectedMaxTrades"
            /\ risk_cfg.max_daily_loss_usd > 0 =>
                   can_trade_decision(risk, risk_cfg, now) # "RejectedDailyLoss")

\* a reset after can_trade had answered RejectedDailyLoss, with the trade
\* count at its limit too
C11_Witness ==
    /\ risk_op = "reset_daily_stats"
    /\ risk_result = "RejectedDailyLoss"
    /\ risk_cfg.max_daily_loss_usd > 0
    /\ risk.open_positions = 0
    /\ pnl_sum = 0

\* ------------------------------------------------------------------------
\* C12: on_order_placed adds exactly 1 to open_positions and daily_trades
\* and stamps last_order_time; on_position_closed(pnl) takes 1 from
\* open_positions, never below 0, and adds pnl to daily_pnl;
\* reset_daily_stats zeroes daily_pnl and daily_trades and leaves
\* open_positions and last_order_time unchanged.
\* ------------------------------------------------------------------------
C12_RiskTransitions ==
    [][now' = now =>
        /\ risk_op' = "on_order_placed" =>
             /\ risk'.open_positions = risk.open_positions + 1
             /\ risk'.daily_trades = risk.daily_trades + 1
             /\ risk'.last_order_time = now
             /\ risk'.daily_pnl = risk.daily_pnl
        /\ risk_op' = "on_position_closed" =>
             /\ risk'.open_positions =
                    (IF risk.open_positions = 0 THEN 0 ELSE risk.open_positions - 1)
             /\ risk'.daily_pnl - risk.daily_pnl = pnl_sum' - pnl_sum
             /\ risk'.daily_trades = risk.daily_trades
             /\ risk'.last_order_time = risk.last_order_time
        /\ risk_op' = "reset_daily_stats" =>
             /\ risk'.daily_pnl = 0
             /\ risk'.daily_trades = 0
             /\ risk'.open_positions = risk.open_positions
             /\ risk'.last_order_time = risk.last_order_time]_vars

\* a position closed with a loss while none was counted open
C12_Witness ==
    /\ risk_op = "on_position_closed"
    /\ risk.open_positions = 0
    /\ risk.daily_trades = 0
    /\ risk.daily_pnl = -50

\* ------------------------------------------------------------------------
\* C13: if the entry Market order of place_bracket_order fails, exactly one
\* place_order call was made, no stop-loss or take-profit order is
\* submitted, all three optionals of the result are empty, the
\* pending-orders map is unchanged, and the engine does not call
\* RiskManager::on_order_placed.
\* ------------------------------------------------------------------------
C13_FailedEntryAbortsBracket ==
    [][(Len(orders') > Len(orders) /\ ~orders'[Len(orders) + 1].ok) =>
         /\ Len(orders') = Len(orders) + 1
         /\ IsEntry(orders'[Len(orders) + 1])
         /\ event'.bracket
         /\ ~event'.entry_order
         /\ ~event'.stop_loss_order
         /\ ~event'.take_profit_order
         /\ pending_orders' = pending_orders
         /\ order_counter' = order_counter + 1
         /\ risk' = risk]_vars

\* an approved signal whose entry the exchange refused
C13_Witness ==
    /\ event.bracket
    /\ event.decision = "Approved"
    /\ stats.approved_trades = 1
    /\ Len(orders) = 1
    /\ ~orders[1].ok

\* ------------------------------------------------------------------------
\* C14: when the entry of place_bracket_order(symbol, side, qty, sl, tp)
\* succeeds, exactly two further orders are submitted by it, in this order:
\* a StopMarket with stop_price = sl, then a TakeProfitMarket with
\* stop_price = tp; both have the side opposite to side, quantity qty,
\* reduce_only = true and close_position = false; the take-profit is
\* submitted whether or not the stop-loss submission succeeded.  (A fourth
\* order in the same depth update can only be the engine's reduce-only
\* Market close, sent after place_bracket_order has returned.)
\* ------------------------------------------------------------------------
C14_BracketLegs ==
    [][(Len(orders') > Len(orders) /\ orders'[Len(orders) + 1].ok) =>
         LET n == Len(orders)
         IN  /\ event'.bracket
             /\ Len(orders') \in {n + 3, n + 4}
             /\ orders'[n + 1].type = "Market"
             /\ orders'[n + 1].side = event'.side
             /\ orders'[n + 2].type = "StopMarket"
             /\ orders'[n + 2].stop_price = event'.stop_loss_price
             /\ orders'[n + 3].type = "TakeProfitMarket"
             /\ orders'[n + 3].stop_price = event'.take_profit_price
             /\ \A i \in {n + 2, n + 3} :
                    /\ orders'[i].side \in {"Buy", "Sell"} \ {event'.side}
                    /\ orders'[i].quantity = event'.quantity
                    /\ orders'[i].reduce_only
                    /\ ~orders'[i].close_position
             /\ Len(orders') = n + 4 =>
                    /\ orders'[n + 4].type = "Market"
                    /\ orders'[n + 4].reduce_only
                    /\ ~(orders'[n + 2].ok /\ orders'[n + 3].ok)]_vars

\* the take-profit of a Sell bracket, submitted after its stop-loss was refused
C14_Witness ==
    /\ Len(orders) >= 3
    /\ orders[1].ok /\ orders[1].side = "Sell"
    /\ ~orders[2].ok
    /\ orders[3].type = "TakeProfitMarket" /\ orders[3].ok
    /\ orders[3].side = "Buy"

\* ------------------------------------------------------------------------
\* C17: when can_trade returns a Rejected* decision for a qualified signal,
\* the engine submits no order in that event, adds one to its
\* rejected-trades counter and leaves the risk manager's state unchanged;
\* an entry order is submitted only in an event in which can_trade returned
\* Approved.
\* ------------------------------------------------------------------------
C17_RejectedSignalPlacesNothing ==
    [][/\ (stats'.total_updates = stats.total_updates + 1
             /\ event'.decision \notin {"NotCalled", "Approved"}) =>
            /\ orders' = orders
            /\ stats'.rejected_trades = stats.rejected_trades + 1
            /\ stats'.approved_trades = stats.approved_trades
            /\ risk' = risk
       /\ Len(orders') > Len(orders) =>
            (IsEntry(orders'[Len(orders) + 1]) /\ event'.decision = "Approved")]_vars

\* a qualified signal that can_trade rejected
C17_Witness ==
    /\ event.decision = "RejectedCooldown"
    /\ stats.qualified_buys + stats.qualified_sells = 1
    /\ stats.rejected_trades = 1
    /\ orders = <<>>

\* ------------------------------------------------------------------------
\* C18: every bracket entry the engine submits has notional (final order
\* quantity x entry price) <= $600, for every positive entry price and
\* every risk decision, including after the quantity has been bumped up to
\* meet the $100 minimum notional; if the final notional would exceed $600
\* no order is placed.  (Quantities are in 1/1000 unit, so the notional is
\* in 1/1000 dollar.)
\* ------------------------------------------------------------------------
C18_EntryNotionalAtMost600 ==
    [][(Len(orders') > Len(orders) /\ IsEntry(orders'[Len(orders) + 1])) =>
          orders'[Len(orders) + 1].quantity * event'.price <= 600000]_vars

\* ------------------------------------------------------------------------
\* C15: client order ids are unique: every call to generate_client_order_id
\* yields opus_<N> with N strictly greater than in all earlier calls, and
\* two calls never return the same id even when orders are placed
\* concurrently from different threads; consequently the entry, _SL and _TP
\* ids of all brackets are pairwise distinct.
\* ------------------------------------------------------------------------
C15_ClientOrderIdsUnique ==
    \A i, j \in 1..Len(issued) :
        i < j => /\ issued[i].id[1] = "opus_"
                 /\ issued[i].id[2] < issued[j].id[2]
                 /\ issued[i].id # issued[j].id

\* two brackets placed from two threads, their requests interleaved
C15_Witness ==
    /\ Len(issued) = 6
    /\ issued[1].thread # issued[2].thread
    /\ issued[3].thread # issued[4].thread
    /\ \A t \in Threads :
          {issued[i].id[3] : i \in {k \in 1..6 : issued[k].thread = t}} = {"", "_SL", "_TP"}

\* ------------------------------------------------------------------------
\* C16: sync_with_exchange returns true iff at least one symbol in the
\* tracker's set before the call is absent from the positions fetched in
\* the call; afterwards the tracker's set equals the fetched set, with
\* signed quantity +|qty| for Long and -|qty| for Short, so a sync starting
\* from an empty set never returns true and has_open_position() is true iff
\* the fetched set is non-empty.
\* ------------------------------------------------------------------------
SymbolsOf(positions) == {positions[i].symbol : i \in 1..Len(positions)}

C16_SyncWithExchange ==
    [][tracker_op' = "sync_with_exchange" =>
         /\ sync_returned' <=> (SymbolsOf(open_positions_) \ SymbolsOf(fetched') # {})
         /\ Len(open_positions_') = Len(fetched')
         /\ \A j \in 1..Len(fetched') :
               /\ open_positions_'[j].symbol = fetched'[j].symbol
               /\ fetched'[j].side = "Long" =>
                      open_positions_'[j].quantity = Abs(fetched'[j].quantity)
               /\ fetched'[j].side = "Short" =>
                      open_positions_'[j].quantity = -Abs(fetched'[j].quantity)
         /\ open_positions_ = <<>> => ~sync_returned'
         /\ has_open_position(open_positions_') <=> (fetched' # <<>>)]_vars

\* a sync that found a tracked symbol gone and fetched one Short position
C16_Witness ==
    /\ tracker_op = "sync_with_exchange"
    /\ sync_returned
    /\ Len(open_positions_) = 1
    /\ open_positions_[1].quantity < 0

\* ------------------------------------------------------------------------
\* C19: for publish_depth called by the single producer: after any number
\* of attempts, events_published + events_dropped equals the number of
\* attempts, each counter is monotonically non-decreasing, and an attempt
\* increments events_dropped (and enqueues nothing) exactly when try_push on
\* the ring returned false.
\* ------------------------------------------------------------------------
C19_DropAccounting ==
    /\ [](/\ bus_pc = "idle" =>
                /\ events_published + events_dropped = attempts
                /\ events_published = Len(accepted)
          /\ bus_pc = "try_push" =>
                events_published + events_dropped = attempts - 1)
    /\ [][/\ events_published' >= events_published
          /\ events_dropped' >= events_dropped
          /\ (bus_pc = "try_push" /\ bus_pc' = "idle") =>
                /\ (events_dropped' = events_dropped + 1) <=> (p_ret = "false")
                /\ (events_published' = events_published + 1) <=> (p_ret = "true")
                /\ accepted' = accepted]_vars

\* both counters have moved: an attempt on a full ring was dropped
C19_Witness ==
    /\ bus_pc = "idle"
    /\ events_dropped >= 1
    /\ events_published = Capacity - 1
    /\ attempts = Capacity

\* ------------------------------------------------------------------------
\* C20: engine shutdown is ordered producer-first: on stop the exchange
\* client (the ring's producer) stops publishing before the event loop
\* stops consuming, so every event that was successfully published to the
\* ring is dispatched to the handler before shutdown completes (the ring is
\* drained).
\* ------------------------------------------------------------------------
C20_DrainedAtShutdown ==
    (~loop_running /\ ~client_running) => popped = accepted

C20_ProducerFirstShutdown ==
    /\ ~loop_running => ~client_running
    /\ C20_DrainedAtShutdown

\* ------------------------------------------------------------------------
\* C21: in live mode, after delivery of either SIGINT or SIGTERM the engine
\* eventually performs the orderly shutdown: the event loop is stopped
\* (run() returns), the exchange client is stopped, final statistics are
\* printed, and the process exits with code 0.
\* ------------------------------------------------------------------------
OrderlyShutdownDone ==
    /\ main_pc = "exit"
    /\ exit_code = 0
    /\ ~loop_running
    /\ ~client_running
    /\ stats_printed >= 1

C21_SignalLeadsToShutdown == (signalled # {}) ~> OrderlyShutdownDone

\* ------------------------------------------------------------------------
\* C22: EventLoop::run returns eventually once stop() has been called or a
\* ShutdownEvent has been popped from the ring, and does not return
\* otherwise; until then every event popped from the ring is dispatched to
\* exactly one of on_depth_event / on_timer_event / on_shutdown_event, in
\* pop order.
\* ------------------------------------------------------------------------
ShutdownPopped == \E i \in 1..Len(popped) : kinds[popped[i]] = "Shutdown"

C22_RunReturns ==
    /\ (~loop_running \/ ShutdownPopped) ~> (main_pc # "run")
    /\ [][(main_pc = "run" /\ main_pc' # "run") =>
            /\ ~loop_running \/ ShutdownPopped
            /\ Len(dispatched) = Len(popped)]_vars
    /\ [](/\ Len(dispatched) \in {Len(popped) - 1, Len(popped)}
          /\ \A i \in 1..Len(dispatched) :
                /\ dispatched[i].item = popped[i]
                /\ kinds[popped[i]] = "Depth" => dispatched[i].handler = "on_depth_event"
                /\ kinds[popped[i]] = "Timer" => dispatched[i].handler = "on_timer_event"
                /\ kinds[popped[i]] = "Shutdown" =>
                       dispatched[i].handler = "on_shutdown_event")

\* run() has returned on a ShutdownEvent that followed a depth and a timer
\* event, stop() not having been called
C22_Witness ==
    /\ main_pc = "stop"
    /\ loop_running
    /\ Len(dispatched) = 3
    /\ dispatched[3].handler = "on_shutdown_event"
    /\ {dispatched[1].handler, dispatched[2].handler}
          = {"on_depth_event", "on_timer_event"}

\* C23 as stated: after each update the raw imbalance is in [-1, 1] and the
\* smoothed imbalance is in [-1, 1], whatever depth_levels and
\* smoothing_period are.
C23_ImbalanceInRange ==
    obi.sample_count > 0 =>
        InUnitRange(obi.raw_imbalance) /\ InUnitRange(obi.smoothed_imbalance)

\* C23 amended: after each update the raw imbalance is in [-1, 1] for every
\* depth_levels and smoothing_period, and the smoothed imbalance is in
\* [-1, 1] for every depth_levels and every smoothing_period of at least 1.
C23_ImbalanceInRangePositivePeriod ==
    obi.sample_count > 0 =>
        /\ InUnitRange(obi.raw_imbalance)
        /\ obi_config.smoothing_period >= 1 => InUnitRange(obi.smoothed_imbalance)

\* a second sample above the first, smoothed with period 2: the average lies
\* strictly between the two
C23_Witness ==
    /\ obi.sample_count = 2
    /\ obi_config.smoothing_period = 2
    /\ FracLess(Frac(0, 1), obi.raw_imbalance)
    /\ FracLess(obi.smoothed_imbalance, obi.raw_imbalance)
    /\ FracLess(Frac(-1, 1), obi.smoothed_imbalance)
    /\ FracLess(obi.smoothed_imbalance, Frac(0, 1))

\* C24: after update(bids, asks) the raw imbalance is the depth-weighted
\* ratio (bid_vol - ask_vol) / (bid_vol + ask_vol) over the top depth_levels
\* levels with the weights 1 - i / depth_levels, and it is 0 when a side is
\* empty or the volumes sum to zero.
C24_RawIsDepthWeighted ==
    obi.sample_count > 0 =>
        /\ obi.raw_imbalance = obi_in.weighted
        /\ obi_in.empty \/ obi_in.bid_volume + obi_in.ask_volume = 0
             => obi.raw_imbalance = Frac(0, 1)

Kept(levels) ==
    {levels[i] : i \in {j \in 1..Len(levels) :
                          /\ levels[j].quantity # 0
                          /\ \A k \in (j + 1)..Len(levels) :
                                levels[k].price # levels[j].price}}

SideIs(side, levels, desc) ==
    /\ Len(side) = Cardinality(Kept(levels))
    /\ {side[i] : i \in 1..Len(side)} = Kept(levels)
    /\ \A i \in 1..(Len(side) - 1) :
          IF desc THEN side[i].price > side[i + 1].price
                  ELSE side[i].price < side[i + 1].price

\* C26: after a depth update for the primary symbol is handled, each side of
\* the book holds exactly the update's levels of that side that have a
\* quantity other than zero, each price once with the quantity of its last
\* occurrence, sorted (bids descending, asks ascending), and no level of an
\* earlier update or snapshot.
C26_BookIsLastEvent ==
    [][stats'.total_updates = stats.total_updates + 1 =>
         /\ SideIs(bids', event'.update.bids, TRUE)
         /\ SideIs(asks', event'.update.asks, FALSE)]_vars

\* the second update handled: unsorted, one bid price twice, one ask removed
C26_Witness ==
    /\ stats.total_updates = 2
    /\ book_op = "depth_update"
    /\ Len(event.update.bids) = 3
    /\ bids = <<Level(49999, 1), Level(49990, 2)>>
    /\ asks = <<Level(50000, 1)>>

\* C27: last_update_id after each operation on the book (initialize,
\* update_bid, update_ask, update_batch, clear, set_last_update_id, by the
\* engine and by a caller whose ids do not decrease) is at least its value
\* before the operation.
C27_LastUpdateIdNonDecreasing ==
    [][last_update_id' >= last_update_id]_vars

\* the terminal values of OrderStatus
TerminalStatuses == {"Filled", "Canceled", "Rejected", "Expired"}

\* C28: the pending-orders map holds every order placed successfully whose
\* status is not terminal, and no order whose last observed status is
\* terminal (Filled, Canceled, Rejected, Expired); a Market entry answered as
\* Filled is not pending.
C28_PendingIsNonTerminal ==
    /\ \A i \in 1..Len(orders) :
          (orders[i].ok /\ orders[i].status \notin TerminalStatuses)
              => i \in pending_orders
    /\ \A i \in pending_orders : orders[i].status \notin TerminalStatuses

\* the times item is in seq
Count(seq, item) == Cardinality({i \in 1..Len(seq) : seq[i] = item})

\* C29: a push(item) call, also one that finds the ring full, returns when
\* the consumer keeps popping, and when it returns item has been enqueued
\* exactly once; while it waits (its try_push calls return false) it changes
\* neither head nor a slot.
C29_BlockingPush ==
    /\ \A i \in 1..MaxPush :
          (pushing = i) ~> (\E k \in 1..Len(returned) : returned[k].item = i)
    /\ [](\A k \in 1..Len(returned) : Count(accepted, returned[k].item) = 1)
    /\ [](pushing # 0 => Count(accepted, pushing) <= 1)
    /\ [][(pushing # 0 /\ pushing' = pushing /\ p_pc' \in {"check", "idle"}
             /\ p_ret' # "true")
            => (head' = head /\ buffer' = buffer)]_vars

\* a push that found the ring full has returned, its item enqueued once
C29_Witness ==
    /\ returned # <<>>
    /\ returned[Len(returned)].waited
    /\ Count(accepted, returned[Len(returned)].item) = 1
    /\ pushing = 0

NeverEmitted == \A d \in {"Buy", "Sell"} : emit_time[d] = -1

C31_GatesAndDirectionReset ==
    [][now' = now =>
          /\ streak'.gated =>
                /\ f_signal' = "None"
                /\ filt'.consecutive_ticks = 0
                /\ filt'.last_buy_time = filt.last_buy_time
                /\ filt'.last_sell_time = filt.last_sell_time
          /\ (streak'.changed /\ ~streak'.gated) =>
                /\ filt'.consecutive_ticks = IF f_signal' # "None" THEN 0 ELSE 1
                /\ f_signal' # "None" => streak'.required <= 1
          /\ streak'.changed => filt'.last_direction = streak'.dir]_vars

\* a tick of the direction of a running streak failed a gate after a Buy
\* had been emitted: the counter went from 1 or more to 0
C31_Witness ==
    /\ streak.gated
    /\ ~streak.changed
    /\ streak.prev >= 1
    /\ streak.dir = "Buy"
    /\ filt.consecutive_ticks = 0
    /\ emit_time["Buy"] # -1
    /\ filt.last_buy_time = emit_time["Buy"]
    /\ filt.last_buy_time > 0

\* the side after a new level priced p is inserted in a full side: the
\* levels that sort before p, the new level, and the levels that sort after
\* p without the last of them; the side itself when nothing sorts after p
AtCapacity(side, p, q, desc) ==
    LET before == SelectSeq(side, LAMBDA lv : IF desc THEN lv.price > p ELSE lv.price < p)
        after  == SelectSeq(side, LAMBDA lv : IF desc THEN lv.price < p ELSE lv.price > p)
    IN  IF after = <<>> THEN side
        ELSE before \o <<Level(p, q)>> \o SubSeq(after, 1, Len(after) - 1)

\* C32: on a side that holds MAX_LEVELS levels, an update with a new price
\* and a non-zero quantity that sorts before a stored level puts it at its
\* sorted position and drops the last level, the count staying MAX_LEVELS;
\* a new price that sorts after every stored level changes nothing; no
\* side ever holds more than MAX_LEVELS levels and every array index the
\* insertion reads or writes is below MAX_LEVELS.
C32_InsertAtCapacity ==
    /\ Len(bids) <= MAX_LEVELS
    /\ Len(asks) <= MAX_LEVELS
    /\ \A p \in Prices, q \in Quantities \ {0} :
          /\ (Len(bids) = MAX_LEVELS /\ ~Present(bids, p)) =>
                /\ update_bid(bids, p, q) = AtCapacity(bids, p, q, TRUE)
                /\ Len(update_bid(bids, p, q)) = MAX_LEVELS
          /\ (Len(asks) = MAX_LEVELS /\ ~Present(asks, p)) =>
                /\ update_ask(asks, p, q) = AtCapacity(asks, p, q, FALSE)
                /\ Len(update_ask(asks, p, q)) = MAX_LEVELS
          /\ InsertAccesses(Len(bids), lower_bound(bids, 0, Len(bids), p, TRUE))
                \subseteq 0..(MAX_LEVELS - 1)
          /\ InsertAccesses(Len(asks), lower_bound(asks, 0, Len(asks), p, FALSE))
                \subseteq 0..(MAX_LEVELS - 1)

\* update_bid on a full bid side: the caller has set MAX_LEVELS + 1 bid
\* prices, the side holds the best MAX_LEVELS of them with the last one set
\* at the top, and the asks hold the best MAX_LEVELS of MAX_LEVELS + 1 too
C32_Witness ==
    /\ book_op = "update_bid"
    /\ Len(bids) = MAX_LEVELS
    /\ Cardinality(feed_bids) = MAX_LEVELS + 1
    /\ \A f \in feed_bids : bids[1].price >= f
    /\ bids[1].quantity = 2
    /\ \A i \in 2..Len(bids) : bids[i].quantity = 1
    /\ Len(asks) = MAX_LEVELS
    /\ Cardinality(feed_asks) = MAX_LEVELS + 1
    /\ \A f \in feed_asks : asks[1].price <= f

\* the entry prices can_trade is called with
EntryPrices == {1, 50000}

\* a < b for two prices of the same dollar amount: NaN compares false
DPriceLess(a, b) == ~a.nan /\ ~b.nan /\ a.v = b.v /\ a.frac < b.frac

\* the stops of an approved result bracket the entry price on the right
\* sides and the stop loss is at least 0.20% of the entry price away
StopsBracketEntry(res, entry_price, is_long) ==
    LET entry == DPrice(entry_price, 0)
    IN  /\ IF is_long
             THEN /\ DPriceLess(res.stop_loss_price, entry)
                  /\ DPriceLess(entry, res.take_profit_price)
             ELSE /\ DPriceLess(res.take_profit_price, entry)
                  /\ DPriceLess(entry, res.stop_loss_price)
        /\ ~res.stop_loss_price.nan
        /\ Abs(res.stop_loss_price.frac) >= entry_price * MIN_STOP_LOSS_PCT

C34_NotReadyGate ==
    /\ [](obi.sample_count = stats.total_updates)
    /\ [](is_ready(obi, obi_config)
            <=> stats.total_updates >= obi_config.smoothing_period)
    /\ [][stats'.total_updates # stats.total_updates =>
            IF stats'.total_updates < obi_config.smoothing_period
              THEN /\ ~event'.filtered
                   /\ filt' = filt /\ f_signal' = f_signal
                   /\ emit_time' = emit_time
                   /\ event'.decision = "NotCalled" /\ ~event'.bracket
                   /\ orders' = orders /\ order_counter' = order_counter
                   /\ pending_orders' = pending_orders
                   /\ ex_pos' = ex_pos
                   /\ risk' = risk
              ELSE event'.filtered]_vars
    /\ [][orders' # orders => stats'.total_updates >= obi_config.smoothing_period]_vars

\* with smoothing_period 2 the second depth update has found the generator
\* ready, the filter has qualified a Buy and the bracket has been placed
C34_Witness ==
    /\ obi_config.smoothing_period = 2
    /\ stats.total_updates = 2
    /\ obi.sample_count = 2
    /\ event.filtered
    /\ f_signal = "Buy"
    /\ event.bracket /\ event.entry_order
    /\ Len(orders) = 3

\* the slots [tail, head) a try_pop may read
Readable == {AndMask(tail + i) : i \in 0..(size - 1)}

\* C35: under every interleaving of the producer and the consumer, the
\* slot try_push writes is the one at index head and lies outside the
\* readable slots [tail, head), before and after the write; the readable
\* slots hold, in order, the accepted items not yet popped, so a slot is
\* readable only once its write is complete; the slot try_pop reads is a
\* readable one and stays so until the consumer has stored the new tail.
C35_NoSlotSharedByWriterAndReader ==
    /\ [](p_pc \in {"write", "publish"} => (p_head = head /\ p_head \notin Readable))
    /\ [](c_pc \in {"read", "advance"} => (c_tail = tail /\ c_tail \in Readable))
    /\ []((p_pc = "write" /\ c_pc \in {"read", "advance"}) => p_head # c_tail)
    /\ [](/\ size = Len(accepted) - Len(popped)
          /\ \A i \in 0..(size - 1) :
                buffer[AndMask(tail + i)] = accepted[Len(popped) + 1 + i])
    /\ [][\A i \in 0..(Capacity - 1) :
              buffer'[i] # buffer[i] => (i = head /\ i \notin Readable /\ i \notin Readable')]_vars
    /\ [][c_item' # c_item => c_item' = accepted[Len(popped) + 1]]_vars

\* the producer is about to write a slot of a ring that has wrapped around
\* while the consumer is about to read another one
C35_Witness ==
    /\ p_pc = "write"
    /\ c_pc = "read"
    /\ Len(popped) >= Capacity
    /\ size = 1
    /\ p_head # c_tail

\* C36: with two producers calling try_push and one consumer calling
\* try_pop, under every interleaving, each value returned by try_pop is a
\* value passed to try_push, no value is returned twice, and once all calls
\* have returned every value whose try_push returned true and that the
\* ring no longer holds has been returned by try_pop.
C36_PoppedArePushed ==
    LET popped_ == mpsc.popped
    IN  /\ \A i \in 1..Len(popped_) : popped_[i] \in 1..(mpsc.nextId - 1)
        /\ \A i, j \in 1..Len(popped_) : i # j => popped_[i] # popped_[j]
        /\ (mpsc.c_pc = "idle" /\ mpsc.head_ = mpsc.tail_
              /\ \A p \in Producers : mpsc.pc[p] = "idle")
             => mpsc.pushed = {popped_[i] : i \in 1..Len(popped_)}

\* C37: for every sequence of depth events, timer events and answers of the
\* exchange, a POSITION_SYNC that runs while the engine's position is still
\* open on the exchange - its positions() call failing or not - does not
\* call on_position_closed, and, max_open_positions being 1, no entry order
\* is accepted while a position the engine opened is still open.
C37_FailedSyncIsNoClosure ==
    /\ [][(sync_parity' # sync_parity /\ ex_pos # 0)
             => risk'.open_positions = risk.open_positions]_vars
    /\ [][(Len(orders') > Len(orders) /\ IsEntry(orders'[Len(orders) + 1])
             /\ orders'[Len(orders) + 1].ok)
             => (ex_pos = 0 \/ risk_cfg.max_open_positions > 1)]_vars

\* C38: in every state of the engine 0 <= open_positions <=
\* max_open_positions and 0 <= daily_trades <= MAX_DAILY_TRADES; the two
\* counters go up only in a depth update in which can_trade returned
\* Approved and the entry order succeeded, and in each such update by
\* exactly one.
C38_RiskCountersBounded ==
    /\ [](/\ 0 <= risk.open_positions
          /\ risk.open_positions <= risk_cfg.max_open_positions
          /\ 0 <= risk.daily_trades
          /\ risk.daily_trades <= MAX_DAILY_TRADES)
    /\ [][(risk'.daily_trades # risk.daily_trades
             \/ risk'.open_positions > risk.open_positions) =>
            /\ stats'.total_updates = stats.total_updates + 1
            /\ event'.decision = "Approved"
            /\ event'.entry_order]_vars
    /\ [][(stats'.total_updates = stats.total_updates + 1
             /\ event'.decision = "Approved" /\ event'.entry_order) =>
            /\ risk'.daily_trades = risk.daily_trades + 1
            /\ risk'.open_positions = risk.open_positions + 1]_vars

\* the last trade the day allows has been placed
C38_Witness ==
    /\ risk.daily_trades = MAX_DAILY_TRADES
    /\ risk.open_positions = risk_cfg.max_open_positions
    /\ event.decision = "Approved"
    /\ event.entry_order
    /\ Len(orders) >= 3

C40_RealizedLossStopsEntries ==
    /\ [](risk.daily_pnl = realized.closed_sum)
    /\ [][sync_parity' # sync_parity =>
            risk'.daily_pnl - risk.daily_pnl
              = realized'.closed_sum - realized.closed_sum]_vars
    /\ [][(Len(orders') > Len(orders) /\ IsEntry(orders'[Len(orders) + 1]))
            => realized.closed_sum > -risk_cfg.max_daily_loss_usd]_vars

====
